---- MODULE Spec2Model ----
(***************************************************************************)
(* MiLA conversational engine: the tool chain executor                     *)
(* (src/MiLA/src/components/tool_chain.py), the session store              *)
(* (src/MiLA/src/components/session_manager.py, src/MiLA/src/models/       *)
(* session.py) and the turn handler                                        *)
(* (src/MiLA/src/components/ai_orchestrator.py, src/MiLA/src/api/chat.py). *)
(*                                                                         *)
(* Python dictionaries are functions over a fixed key set whose value      *)
(* Absent marks a missing key; None is Python's None.  All dictionary      *)
(* values are strings.  The tools never suspend on the event loop (they do *)
(* no real I/O wait), so one tool invocation, one store operation and one  *)
(* turn are each one step.                                                 *)
(***************************************************************************)
EXTENDS Integers, Sequences, FiniteSets, TLC

\* ------------------------------------------------------------------ bounds
\* Longest plan whose tool names are chosen freely.
MaxSteps == 3
\* Longest plan of one repeated tool (progress percentages of long chains).
MaxLongSteps == 11

\* ------------------------------------------------------------- dictionaries
None == "None"
Absent == "<absent>"

CtxKeys ==
  {"identifier", "current_loan_number", "current_borrower_name",
   "current_loan_data", "current_payoff_data", "total_payoff_amount",
   "generated_pdf_filename", "generated_pdf_url", "pending_email_confirmation"}

EmptyDict == [k \in CtxKeys |-> Absent]

\* One-key and two-key dictionary literals.
Dict1(k, v) == [x \in CtxKeys |-> IF x = k THEN v ELSE Absent]

\* dict.update(u): every key present in u overwrites the key of d.
DictUpdate(d, u) == [k \in CtxKeys |-> IF u[k] # Absent THEN u[k] ELSE d[k]]

\* dict.get(key) on a tool's result payload (result.result or {}): None when
\* the payload is missing, else the payload's field.
PayloadGet(payload, field) ==
  IF payload = None THEN None ELSE payload \o "." \o field

\* result.result or {}: the payload, the empty dictionary when there is none.
PayloadOrEmpty(payload) == IF payload = None THEN "{}" ELSE payload

\* --------------------------------------------------------- tool registry
RegisteredTools ==
  {"get_loan_info", "calculate_payoff", "generate_pdf", "send_email",
   "confirm_email"}

\* A tool name no register_tool call has registered.
UnknownTool == "unregistered_tool"

ToolNames == RegisteredTools \cup {UnknownTool}

\* available_tools as filled by _register_tools_with_chain_engine.
available_tools == RegisteredTools

\* ToolDefinition.provides_context of each registered tool.
provides_context(tool) ==
  CASE tool = "get_loan_info" ->
         {"current_loan_data", "current_loan_number", "current_borrower_name"}
    [] tool = "calculate_payoff" -> {"current_payoff_data", "total_payoff_amount"}
    [] tool = "generate_pdf" -> {"generated_pdf_filename", "generated_pdf_url"}
    [] tool = "send_email" -> {}
    [] tool = "confirm_email" -> {"pending_email_confirmation"}
    [] OTHER -> {}

\* ---------------------------------------------------------------- statuses
PENDING == "pending"
IN_PROGRESS == "in_progress"
COMPLETED == "completed"
FAILED == "failed"
SKIPPED == "skipped"

\* ToolResult of a tool call; present = FALSE is ToolStep.result = None.
NoResult ==
  [present |-> FALSE, success |-> FALSE, result |-> None, error_message |-> None]

ToolResultOk(payload) ==
  [present |-> TRUE, success |-> TRUE, result |-> payload, error_message |-> None]

ToolResultFail(msg) ==
  [present |-> TRUE, success |-> FALSE, result |-> None, error_message |-> msg]

\* What a tool call can do: return a success result, return an explicit
\* failure result (success = False with a message), or raise.
Outcomes == {"ok", "fail", "raise"}

VARIABLES
  steps,        \* plan.steps: the ToolStep records of the plan
  total_steps,  \* plan.total_steps
  chainPc,      \* position of execute_chain: created, loop, invoke, done
  cur,          \* 1-based index of the step execute_chain is at
  updates,      \* ProgressUpdates emitted so far, in order
  invoked,      \* tool invocations so far: step, tool, arguments, outcome
  chainResult,  \* the ChainExecutionResult returned (present = FALSE before)
  raisers,      \* the progress callbacks that raise when they are called
  deliveries,   \* for each ProgressUpdate emitted, the callbacks called with it
  now,          \* datetime.now(), in hours
  sessions,     \* SessionManager.sessions: session id -> ChatSession
  ret,          \* what the last store operation or turn returned
  heap,         \* the objects dictionaries refer to: address -> object
  plans,        \* the ToolChainPlans created so far, in order
  planRet,      \* what the last plan operation did or returned
  sequence      \* execute_tool_sequence: its tool calls, position and results

chainVars ==
  <<steps, total_steps, chainPc, cur, updates, invoked, chainResult, raisers,
    deliveries>>

sessionVars == <<now, sessions, ret>>

planVars == <<heap, plans, planRet, sequence>>

vars == <<chainVars, sessionVars, planVars>>

\* ------------------------------------------------------------ session store
\* Last hour the clock reaches.
MaxTime == 3

\* SessionCreateRequest.expiry_hours default.
DefaultExpiryHours == 2

\* Session ids callers use (the empty string is a str like any other), and
\* the ids uuid.uuid4() can produce.
SessionIds == {"s1", "u1", ""}

\* The ids the store operations other than get_or_create_session are
\* called with.
NamedIds == {"s1", "u1"}

UuidPool == {"u1"}

ACTIVE == "active"
EXPIRED == "expired"

\* ContextData() with its field defaults.
DefaultContext ==
  [current_loan_number |-> None, current_borrower_name |-> None,
   current_loan_data |-> None, current_payoff_data |-> None,
   generated_pdf_filename |-> None, generated_pdf_url |-> None,
   borrower_email |-> None, pending_email_confirmation |-> FALSE,
   pending_email_address |-> None, pending_email_loan_number |-> None,
   active_chain_id |-> None, last_chain_result |-> None, debug_mode |-> FALSE]

\* No ChatSession stored under an id.
NoSession ==
  [resident |-> FALSE, status |-> ACTIVE, created_at |-> 0, last_activity |-> 0,
   expires_at |-> 0, context |-> DefaultContext, message_count |-> 0,
   active_chains |-> << >>, completed_chains |-> << >>,
   context_message_shown |-> FALSE]

\* ChatSession(session_id, expires_at = now + expiry_hours) with
\* context.debug_mode set from the request.
NewSession(t, hours, debug) ==
  [resident |-> TRUE, status |-> ACTIVE, created_at |-> t, last_activity |-> t,
   expires_at |-> t + hours,
   context |-> [DefaultContext EXCEPT !.debug_mode = debug],
   message_count |-> 0, active_chains |-> << >>, completed_chains |-> << >>,
   context_message_shown |-> FALSE]

\* Mutant of is_expired: the stored status flag is trusted instead of the clock.
is_expired_by_status(s, t) == s.status = EXPIRED

\* ChatSession.is_expired: datetime.now() > self.expires_at.
is_expired(s, t) == t > s.expires_at

\* Mutant of update_activity: the timestamp is left as it was.
update_activity_keeps_time(s, t) == s

\* ChatSession.update_activity.
update_activity(s, t) ==
  LET s1 == [s EXCEPT !.last_activity = t]
  IN IF is_expired(s1, t) THEN [s1 EXCEPT !.status = EXPIRED] ELSE s1

\* ChatSession.extend_expiry.
extend_expiry(s, t, hours) ==
  [s EXCEPT !.expires_at = t + hours,
            !.status = IF @ = EXPIRED THEN ACTIVE ELSE @]

\* Mutant of clear_loan_context: the pending flag is left as it was.
clear_loan_context_keeps_flag(c) ==
  [c EXCEPT !.current_loan_number = None, !.current_borrower_name = None,
            !.current_loan_data = None, !.current_payoff_data = None,
            !.generated_pdf_filename = None, !.generated_pdf_url = None,
            !.borrower_email = None,
            !.pending_email_address = None, !.pending_email_loan_number = None]

\* ContextData.clear_loan_context.
clear_loan_context(c) ==
  [c EXCEPT !.current_loan_number = None, !.current_borrower_name = None,
            !.current_loan_data = None, !.current_payoff_data = None,
            !.generated_pdf_filename = None, !.generated_pdf_url = None,
            !.borrower_email = None, !.pending_email_confirmation = FALSE,
            !.pending_email_address = None, !.pending_email_loan_number = None]

\* ChatSession.clear_context.
clear_context(s) ==
  [s EXCEPT !.context = [clear_loan_context(@) EXCEPT !.active_chain_id = None],
            !.active_chains = << >>,
            !.context_message_shown = FALSE]

\* Mutant of clear_session_fields: pending_email_address is left behind.
clear_session_fields_keeps_address(s) ==
  [s EXCEPT !.context =
              [@ EXCEPT !.current_loan_number = None,
                        !.current_borrower_name = None,
                        !.current_loan_data = None,
                        !.current_payoff_data = None,
                        !.generated_pdf_filename = None,
                        !.borrower_email = None,
                        !.pending_email_confirmation = FALSE,
                        !.pending_email_loan_number = None],
            !.context_message_shown = FALSE]

\* The field assignments of the clear_session endpoint (api/chat.py).
clear_session_fields(s) ==
  [s EXCEPT !.context =
              [@ EXCEPT !.current_loan_number = None,
                        !.current_borrower_name = None,
                        !.current_loan_data = None,
                        !.current_payoff_data = None,
                        !.generated_pdf_filename = None,
                        !.borrower_email = None,
                        !.pending_email_confirmation = FALSE,
                        !.pending_email_address = None,
                        !.pending_email_loan_number = None],
            !.context_message_shown = FALSE]

\* Mutant of GetSessionFound: a stored session is returned, expired or not.
GetSessionFound_any_stored(store, id, t) == store[id].resident

\* SessionManager.get_session: whether it returns the session (not None) ...
GetSessionFound(store, id, t) ==
  store[id].resident /\ ~is_expired(store[id], t)

\* ... and the store it leaves: an expired session is flagged Expired, a live
\* one has its activity refreshed.
GetSessionStore(store, id, t) ==
  IF ~store[id].resident
    THEN store
    ELSE IF is_expired(store[id], t)
           THEN [store EXCEPT ![id].status = EXPIRED]
           ELSE [store EXCEPT ![id] = update_activity(@, t)]

\* SessionManager.create_session_with_id with the default request.
CreateWithIdStore(store, id, t) ==
  [store EXCEPT ![id] = NewSession(t, DefaultExpiryHours, FALSE)]

\* What an operation returned: the operation, its session id argument, the
\* time of the call, whether a session (not None) came back, the id of the
\* session it worked on and whether that session had a confirmation pending
\* when it started, and for a turn the utterance, the ChatResponse, the
\* session_id the endpoint put on it and the tools the turn invoked, in order;
\* for the chain and tool-result operations their chain id, tool name and
\* result arguments, and for list_sessions the ids of the summaries.
NoRet ==
  [op |-> "none", sid |-> None, at |-> 0, found |-> FALSE, kind |-> None,
   success |-> FALSE, session_id |-> None, endpoint_session_id |-> None,
   calls |-> << >>, count |-> 0, handled |-> None, utterance |-> None,
   pending_before |-> FALSE, chain_id |-> None, tool_name |-> None,
   tool_result |-> NoResult, listed |-> {}, pending_address_before |-> None,
   send_to |-> None]

Ret(op, sid, t, found) ==
  [NoRet EXCEPT !.op = op, !.sid = sid, !.at = t, !.found = found]

SessionInit ==
  /\ now = 0
  /\ sessions = [id \in SessionIds |-> NoSession]
  /\ ret = NoRet

\* The clock advances by one hour; no operation has returned since.
Tick ==
  /\ now < MaxTime
  /\ now' = now + 1
  /\ ret' = NoRet
  /\ UNCHANGED sessions
  /\ UNCHANGED <<chainVars, planVars>>

\* SessionManager.create_session(SessionCreateRequest(expiry_hours, debug_mode)).
CreateSession(hours, debug) ==
  /\ \E id \in UuidPool :
       /\ ~sessions[id].resident
       /\ sessions' = [sessions EXCEPT ![id] = NewSession(now, hours, debug)]
       /\ ret' = Ret("create_session", id, now, TRUE)
  /\ UNCHANGED now
  /\ UNCHANGED <<chainVars, planVars>>

\* SessionManager.get_session(id).
GetSession(id) ==
  /\ sessions' = GetSessionStore(sessions, id, now)
  /\ ret' = Ret("get_session", id, now, GetSessionFound(sessions, id, now))
  /\ UNCHANGED now
  /\ UNCHANGED <<chainVars, planVars>>

\* SessionManager.update_session(id, SessionUpdateRequest(debug_mode,
\* extend_expiry_hours, clear_context)); debug_mode "None" and
\* extend_expiry_hours << >> are omitted fields, <<h>> is h hours.
UpdateSession(id, debug, extend, clear) ==
  /\ LET found == GetSessionFound(sessions, id, now)
         st0 == GetSessionStore(sessions, id, now)
         s1 == IF debug # None
                 THEN [st0[id] EXCEPT !.context.debug_mode = (debug = "True")]
                 ELSE st0[id]
         s2 == IF extend # << >> THEN extend_expiry(s1, now, extend[1]) ELSE s1
         s3 == IF clear THEN clear_context(s2) ELSE s2
     IN /\ sessions' = IF found THEN [st0 EXCEPT ![id] = s3] ELSE st0
        /\ ret' = [Ret("update_session", id, now, found) EXCEPT
                     !.kind = IF clear THEN "clear_context" ELSE None,
                     !.pending_before =
                        st0[id].context.pending_email_confirmation]
  /\ UNCHANGED now
  /\ UNCHANGED <<chainVars, planVars>>

\* SessionManager.delete_session(id).
DeleteSession(id) ==
  /\ sessions' = [sessions EXCEPT ![id] = NoSession]
  /\ ret' = Ret("delete_session", id, now, sessions[id].resident)
  /\ UNCHANGED now
  /\ UNCHANGED <<chainVars, planVars>>

\* The clear_session endpoint (DELETE /api/chat/session/{id}).
ClearSessionEndpoint(id) ==
  /\ LET found == GetSessionFound(sessions, id, now)
         st0 == GetSessionStore(sessions, id, now)
     IN /\ sessions' = IF found
                         THEN [st0 EXCEPT ![id] = clear_session_fields(@)]
                         ELSE st0
        /\ ret' = [Ret("clear_session", id, now, found) EXCEPT
                     !.pending_before =
                        st0[id].context.pending_email_confirmation]
  /\ UNCHANGED now
  /\ UNCHANGED <<chainVars, planVars>>

\* ------------------------------------------------- session chain tracking
\* Most messages update_context_from_message counts in one session.
MaxMessages == 1

\* Chain ids and chain results handed to the session manager.
ChainIds == {"c1", "c2"}

ChainResults == {"result1", "result2"}

\* x in list
InList(list, x) == \E i \in DOMAIN list : list[i] = x

\* list.remove(x) for a list that contains x: the first occurrence goes.
ListRemove(list, x) ==
  LET k == CHOOSE i \in DOMAIN list :
             list[i] = x /\ \A j \in 1..(i - 1) : list[j] # x
  IN [i \in 1..(Len(list) - 1) |-> IF i < k THEN list[i] ELSE list[i + 1]]

\* The assignments of start_chain_execution on the session it got.
start_chain(s, chain_id) ==
  [s EXCEPT !.context.active_chain_id = chain_id,
            !.active_chains = IF InList(@, chain_id) THEN @
                              ELSE Append(@, chain_id)]

\* Mutant of complete_chain: the active chain pointer is always cleared.
complete_chain_clears_pointer(s, chain_id, result) ==
  [s EXCEPT !.active_chains = IF InList(@, chain_id)
                                THEN ListRemove(@, chain_id) ELSE @,
            !.completed_chains = IF InList(@, chain_id) THEN @
                                 ELSE Append(@, chain_id),
            !.context.active_chain_id = None,
            !.context.last_chain_result = result]

\* The assignments of complete_chain_execution on the session it got.
complete_chain(s, chain_id, result) ==
  [s EXCEPT !.active_chains = IF InList(@, chain_id)
                                THEN ListRemove(@, chain_id) ELSE @,
            !.completed_chains = IF InList(@, chain_id) THEN @
                                 ELSE Append(@, chain_id),
            !.context.active_chain_id = IF @ = chain_id THEN None ELSE @,
            !.context.last_chain_result = result]

\* The fields of ContextData; a dictionary over them names the fields an
\* update assigns (Absent: not assigned).
ContextFields == DOMAIN DefaultContext

NoFields == [k \in ContextFields |-> Absent]

\* ContextData.update_from_loan_info(loan_data).
update_from_loan_info(loan_data) ==
  [k \in ContextFields |->
     CASE k = "current_loan_number" -> PayloadGet(loan_data, "loan_number")
       [] k = "current_borrower_name" -> PayloadGet(loan_data, "borrower_name")
       [] k = "current_loan_data" -> loan_data
       [] k = "borrower_email" -> PayloadGet(loan_data, "email_address")
       [] OTHER -> Absent]

\* ContextData.update_from_payoff_calc(payoff_data).
update_from_payoff_calc(payoff_data) ==
  [k \in ContextFields |->
     IF k = "current_payoff_data" THEN payoff_data ELSE Absent]

\* ContextData.update_from_pdf_generation(pdf_data).
update_from_pdf_generation(pdf_data) ==
  [k \in ContextFields |->
     CASE k = "generated_pdf_filename" -> PayloadGet(pdf_data, "filename")
       [] k = "generated_pdf_url" -> PayloadGet(pdf_data, "download_url")
       [] OTHER -> Absent]

\* update_context_from_tool_result raises: the result dictionary of a
\* ToolResult always has the key 'result', so a successful result without a
\* payload gives loan_data = None, and None.get(...) is an AttributeError.
ToolResultRaises(tool_name, tool_result) ==
  /\ tool_result.success
  /\ tool_result.result = None
  /\ tool_name \in {"get_loan_info", "generate_pdf"}

\* The context fields update_context_from_tool_result assigns.
session_context_updates(tool_name, tool_result) ==
  IF ~tool_result.success \/ ToolResultRaises(tool_name, tool_result)
    THEN NoFields
    ELSE CASE tool_name = "get_loan_info" ->
                update_from_loan_info(tool_result.result)
           [] tool_name = "calculate_payoff" ->
                update_from_payoff_calc(tool_result.result)
           [] tool_name = "generate_pdf" ->
                update_from_pdf_generation(tool_result.result)
           [] OTHER -> NoFields

\* The context update_context_from_tool_result leaves in the session it got.
context_from_tool_result(c, tool_name, tool_result) ==
  [k \in ContextFields |->
     IF session_context_updates(tool_name, tool_result)[k] # Absent
       THEN session_context_updates(tool_name, tool_result)[k]
       ELSE c[k]]

\* SessionManager.start_chain_execution(id, chain_id).
StartChainExecution(id, chain_id) ==
  /\ LET found == GetSessionFound(sessions, id, now)
         st0 == GetSessionStore(sessions, id, now)
     IN /\ sessions' = IF found
                         THEN [st0 EXCEPT ![id] = start_chain(@, chain_id)]
                         ELSE st0
        /\ ret' = [Ret("start_chain_execution", id, now, found) EXCEPT
                     !.chain_id = chain_id]
  /\ UNCHANGED now
  /\ UNCHANGED <<chainVars, planVars>>

\* SessionManager.complete_chain_execution(id, chain_id, result).
CompleteChainExecution(id, chain_id, result) ==
  /\ LET found == GetSessionFound(sessions, id, now)
         st0 == GetSessionStore(sessions, id, now)
     IN /\ sessions' =
             IF found
               THEN [st0 EXCEPT ![id] = complete_chain(@, chain_id, result)]
               ELSE st0
        /\ ret' = [Ret("complete_chain_execution", id, now, found) EXCEPT
                     !.chain_id = chain_id, !.kind = result]
  /\ UNCHANGED now
  /\ UNCHANGED <<chainVars, planVars>>

\* SessionManager.update_context_from_message(id, user, assistant):
\* should_clear_context is always False, the message is counted.
UpdateContextFromMessage(id) ==
  /\ sessions[id].message_count < MaxMessages
  /\ LET found == GetSessionFound(sessions, id, now)
         st0 == GetSessionStore(sessions, id, now)
     IN /\ sessions' = IF found
                         THEN [st0 EXCEPT ![id].message_count = @ + 1]
                         ELSE st0
        /\ ret' = Ret("update_context_from_message", id, now, found)
  /\ UNCHANGED now
  /\ UNCHANGED <<chainVars, planVars>>

\* SessionManager.update_context_from_tool_result(id, tool_name, tool_result);
\* kind "raise" when the call ended with an exception instead of a return.
UpdateContextFromToolResult(id, tool_name, tool_result) ==
  /\ LET found == GetSessionFound(sessions, id, now)
         st0 == GetSessionStore(sessions, id, now)
     IN /\ sessions' =
             IF found
               THEN [st0 EXCEPT ![id].context =
                       context_from_tool_result(@, tool_name, tool_result)]
               ELSE st0
        /\ ret' = [Ret("update_context_from_tool_result", id, now, found) EXCEPT
                     !.tool_name = tool_name, !.tool_result = tool_result,
                     !.kind = IF found /\ ToolResultRaises(tool_name, tool_result)
                                THEN "raise" ELSE None]
  /\ UNCHANGED now
  /\ UNCHANGED <<chainVars, planVars>>

\* SessionManager.get_session_summary(id).
GetSessionSummary(id) ==
  /\ sessions' = GetSessionStore(sessions, id, now)
  /\ ret' = Ret("get_session_summary", id, now,
                GetSessionFound(sessions, id, now))
  /\ UNCHANGED now
  /\ UNCHANGED <<chainVars, planVars>>

\* SessionManager.list_sessions(): a summary for every stored id whose
\* get_session_summary is not None; each stored session is fetched.
ListSessions ==
  /\ sessions' = [id \in SessionIds |-> GetSessionStore(sessions, id, now)[id]]
  /\ ret' = [Ret("list_sessions", None, now, FALSE) EXCEPT
               !.listed = {id \in SessionIds :
                             GetSessionFound(sessions, id, now)}]
  /\ UNCHANGED now
  /\ UNCHANGED <<chainVars, planVars>>

\* Mutant of expired_sessions: only the sessions already flagged Expired.
expired_sessions_flagged_only(store, t) ==
  {id \in SessionIds : store[id].resident /\ store[id].status = EXPIRED}

\* The first loop of cleanup_expired_sessions: the ids of the stored sessions
\* with session.is_expired().
expired_sessions(store, t) ==
  {id \in SessionIds : store[id].resident /\ is_expired(store[id], t)}

\* SessionManager.cleanup_expired_sessions: every session expired now is
\* deleted; the count is returned.
CleanupExpiredSessions ==
  /\ LET expired == expired_sessions(sessions, now)
     IN /\ sessions' = [id \in SessionIds |->
                          IF id \in expired THEN NoSession ELSE sessions[id]]
        /\ ret' = [Ret("cleanup_expired_sessions", None, now, FALSE) EXCEPT
                     !.count = Cardinality(expired)]
  /\ UNCHANGED now
  /\ UNCHANGED <<chainVars, planVars>>

\* ------------------------------------------------------------ chat turns
\* The loan records find_loan_by_identifier can return: found by loan number
\* or by borrower name.
LoanNumbers == {"69253358", "12345678"}

BorrowerOf(n) == IF n = "69253358" THEN "Mark Wilson" ELSE "John Doe"

\* The record's email address, when the data file has one for it.
EmailOf(n) == IF n = "69253358" THEN "mark.wilson@email.com" ELSE None

\* loan_data_access.find_loan_by_identifier: the loan number of the record
\* found, None when there is none.
find_loan_by_identifier(identifier) ==
  IF identifier \in LoanNumbers
    THEN identifier
    ELSE IF \E n \in LoanNumbers : BorrowerOf(n) = identifier
           THEN CHOOSE n \in LoanNumbers : BorrowerOf(n) = identifier
           ELSE None

\* borrower_name.lower().replace(' ', '.') + "@email.com"
DemoEmail(name) ==
  IF name = "Mark Wilson" THEN "mark.wilson@email.com"
  ELSE IF name = "John Doe" THEN "john.doe@email.com"
  ELSE "borrower@email.com"

\* A user message as _execute_simplified reads it: the text lowercased and
\* stripped, the first 6-8 digit number, the first two adjacent capitalised
\* words (taken as the borrower name, whatever they are: "Calculate Payoff"
\* is one), and the keyword groups the lowercased text contains.
Utterance(text, loan_number, borrower_name, kws) ==
  [text |-> text, loan_number |-> loan_number, borrower_name |-> borrower_name,
   kw_lookup |-> "lookup" \in kws, kw_payoff |-> "payoff" \in kws,
   kw_pdf |-> "pdf" \in kws, kw_email |-> "email" \in kws,
   kw_full |-> "full" \in kws, kw_and_payoff_pdf |-> "and" \in kws]

Msg(u) ==
  CASE u = "Y" -> Utterance("y", None, None, {})
    [] u = "N" -> Utterance("n", None, None, {})
    [] u = "maybe" -> Utterance("maybe", None, None, {})
    [] u = "Show loan info for loan 69253358" ->
         Utterance("show loan info for loan 69253358", "69253358", None,
                   {"lookup"})
    [] u = "Find loan for John Doe" ->
         Utterance("find loan for john doe", None, "John Doe", {"lookup"})
    [] u = "Show loan info for loan 99999999" ->
         Utterance("show loan info for loan 99999999", "99999999", None,
                   {"lookup"})
    [] u = "Calculate payoff" ->
         Utterance("calculate payoff", None, None, {"payoff"})
    [] u = "Calculate Payoff" ->
         Utterance("calculate payoff", None, "Calculate Payoff", {"payoff"})
    [] u = "Generate PDF" -> Utterance("generate pdf", None, None, {"pdf"})
    [] u = "Send email" -> Utterance("send email", None, None, {"email"})
    [] u = "Process complete payoff for loan 69253358" ->
         Utterance("process complete payoff for loan 69253358", "69253358",
                   None, {"payoff", "full"})

Messages ==
  {"Y", "N", "maybe", "Show loan info for loan 69253358",
   "Find loan for John Doe", "Show loan info for loan 99999999",
   "Calculate payoff", "Calculate Payoff", "Generate PDF", "Send email",
   "Process complete payoff for loan 69253358"}

Affirmatives == {"y", "yes", "ok", "confirm", "send"}

\* Mutant of Negatives: a bare "n" is not an answer.
Negatives_without_n == {"no", "cancel", "stop"}

Negatives == {"n", "no", "cancel", "stop"}

\* What the tools of one turn do: the lookup of an existing record returns
\* its data or raises (loan_record.email_address is read from a record class
\* that declares no such field), the other tools return a result, return a
\* failure result, or raise.
TurnOutcomes ==
  [lookup : {"ok", "raise"}, payoff : Outcomes, pdf : Outcomes,
   send : Outcomes]

\* The outcomes of the tools a message can make its turn call; the outcome
\* of a tool the turn cannot call is left at "ok".
OutcomesFor(u) ==
  LET m == Msg(u)
      chain == m.kw_full \/ m.kw_and_payoff_pdf
  IN {o \in TurnOutcomes :
        /\ (m.loan_number = None /\ m.borrower_name = None) => o.lookup = "ok"
        /\ ~(m.kw_payoff \/ chain) => o.payoff = "ok"
        /\ ~(m.kw_pdf \/ chain) => o.pdf = "ok"
        /\ m.text \notin Affirmatives => o.send = "ok"}

\* A ChatResponse: the kind of message, success, and session_id.
ChatResponse(kind, success, session_id) ==
  [kind |-> kind, success |-> success, session_id |-> session_id]

\* One tool invocation of a turn: the tool, the loan identifier it was given
\* and whether its ToolResult was a success.
ToolCalled(tool_name, identifier, success) ==
  [tool_name |-> tool_name, identifier |-> identifier, success |-> success]

\* The result of a turn: the session as the turn left it, the response, and
\* the tools it invoked.
Turn(s, resp, calls) == [session |-> s, resp |-> resp, calls |-> calls]

\* The except branch of _execute_simplified: whatever was assigned to the
\* session before the exception stays.
ErrorTurn(s, sid, calls) == Turn(s, ChatResponse("error", FALSE, sid), calls)

\* The three pending-email fields reset, as both answers of the confirmation
\* do.
clear_pending(s) ==
  [s EXCEPT !.context.pending_email_confirmation = FALSE,
            !.context.pending_email_address = None,
            !.context.pending_email_loan_number = None]

\* The send_email call among the tools a turn invoked.
SendEmailCalled(calls) ==
  \E i \in DOMAIN calls : calls[i].tool_name = "send_email"

\* The address _execute_send_email sends to: the email_address parameter,
\* which the confirmation branch fills with pending_email_address, and the
\* loan data's address when that parameter is empty.
send_email_address(c) ==
  IF c.pending_email_address # None
    THEN c.pending_email_address
    ELSE IF c.current_loan_data = None THEN None
         ELSE EmailOf(c.current_loan_data)

\* _execute_send_email: "raise" when it raises something other than
\* EmailSimulationError (current_loan_data or current_payoff_data is None and
\* .get is called on it), "fail" for a failure result, "ok" for a sent email.
execute_send_email(c, o) ==
  IF c.pending_email_address = None /\
     (c.current_loan_data = None \/ EmailOf(c.current_loan_data) = None)
    THEN IF c.current_loan_data = None THEN "raise" ELSE "fail"
    ELSE IF c.current_loan_data = None \/ c.current_payoff_data = None
           THEN "raise"
           ELSE o.send

\* Mutant of Reprompt: the question is dropped with the re-prompt.
Reprompt_drops_question(s, sid) ==
  Turn(clear_pending(s), ChatResponse("reprompt", TRUE, sid), << >>)

\* The answer to a message that is neither a yes nor a no while a
\* confirmation is pending: the question again, success=True, nothing
\* assigned to the session.
Reprompt(s, sid) == Turn(s, ChatResponse("reprompt", TRUE, sid), << >>)

\* The confirmation branch of _execute_simplified: the session has a pending
\* email confirmation and the message is the answer to it.
ConfirmationTurn(s, sid, m, o) ==
  IF m.text \in Affirmatives
    THEN LET sent == execute_send_email(s.context, o)
             call == ToolCalled("send_email",
                                s.context.pending_email_loan_number,
                                sent = "ok")
         IN IF sent = "raise"
              THEN ErrorTurn(s, sid, <<call>>)
              ELSE Turn(clear_pending(s),
                        IF sent = "ok"
                          THEN ChatResponse("email_sent", TRUE, sid)
                          ELSE ChatResponse("email_failed", FALSE, sid),
                        <<call>>)
    ELSE IF m.text \in Negatives
           THEN Turn(clear_pending(s),
                     ChatResponse("email_cancelled", TRUE, sid), << >>)
           ELSE Reprompt(s, sid)

\* Step 4 of _execute_simplified: the address is the loan data's
\* email_address, else one made from the borrower name; the confirmation is
\* pending only with an address and a current loan.
EmailStep(s) ==
  LET c == s.context
      email_address ==
        IF c.current_loan_data = None THEN None
        ELSE IF EmailOf(c.current_loan_data) # None
               THEN EmailOf(c.current_loan_data)
               ELSE IF c.current_borrower_name # None
                      THEN DemoEmail(c.current_borrower_name)
                      ELSE None
  IN IF email_address # None /\ c.current_loan_number # None
       THEN [s EXCEPT !.context.pending_email_confirmation = TRUE,
                      !.context.pending_email_address = email_address,
                      !.context.pending_email_loan_number =
                         c.current_loan_number]
       ELSE s

\* The end of _execute_simplified: the response built from response_parts.
FinalResponse(s, sid, anyParts, calls) ==
  IF anyParts
    THEN LET hint == s.context.current_loan_number # None /\
                     ~s.context_message_shown /\
                     ~s.context.pending_email_confirmation
         IN Turn(IF hint THEN [s EXCEPT !.context_message_shown = TRUE] ELSE s,
                 ChatResponse("result", TRUE, sid), calls)
    ELSE IF s.context.current_loan_number # None
           THEN Turn(s, ChatResponse("context_hint", TRUE, sid), calls)
           ELSE Turn(s, ChatResponse("help", TRUE, sid), calls)

\* Steps 2 to 4 of _execute_simplified and the response, from the session,
\* loan number, response parts and tool calls step 1 left.
AfterLookup(s1, sid, loan_number, m, parts1, calls1, o) ==
  LET chain == m.kw_full \/ m.kw_and_payoff_pdf
      do_payoff == m.kw_payoff \/ chain
      do_pdf == m.kw_pdf \/ chain
      do_email == m.kw_email
      callPayoff == do_payoff /\ loan_number # None
      s2 == IF callPayoff /\ o.payoff = "ok"
              THEN [s1 EXCEPT !.context.current_payoff_data = loan_number]
              ELSE s1
      calls2 == IF callPayoff
                  THEN Append(calls1, ToolCalled("calculate_payoff",
                                                 loan_number, o.payoff = "ok"))
                  ELSE calls1
      callPdf == do_pdf /\ loan_number # None
      s3 == IF callPdf /\ o.pdf = "ok"
              THEN [s2 EXCEPT !.context.generated_pdf_filename = loan_number]
              ELSE s2
      calls3 == IF callPdf
                  THEN Append(calls2, ToolCalled("generate_pdf", loan_number,
                                                 o.pdf = "ok"))
                  ELSE calls2
      s4 == IF do_email THEN EmailStep(s3) ELSE s3
      anyParts == parts1 \/ (callPayoff /\ o.payoff = "ok") \/
                  (callPdf /\ o.pdf = "ok") \/ do_email
  IN IF callPayoff /\ o.payoff = "raise" THEN ErrorTurn(s1, sid, calls2)
     ELSE IF callPdf /\ o.pdf = "raise" THEN ErrorTurn(s2, sid, calls3)
     ELSE FinalResponse(s4, sid, anyParts, calls3)

\* Step 1 of _execute_simplified and what follows it, for a session without
\* a pending confirmation.
WorkTurn(s, sid, m, loan_number, o) ==
  LET c == s.context
      chain == m.kw_full \/ m.kw_and_payoff_pdf
      do_payoff == m.kw_payoff \/ chain
      do_pdf == m.kw_pdf \/ chain
      do_lookup == m.kw_lookup \/ chain \/
                   ((loan_number # None \/ m.borrower_name # None) /\
                    ~(m.kw_lookup \/ chain \/ do_payoff \/ do_pdf))
      cached == loan_number # None /\ c.current_loan_number = loan_number /\
                c.current_loan_data # None
      identifier == IF loan_number # None THEN loan_number
                    ELSE m.borrower_name
      record == find_loan_by_identifier(identifier)
      loaded == [s EXCEPT !.context.current_loan_number = record,
                          !.context.current_borrower_name = BorrowerOf(record),
                          !.context.current_loan_data = record]
  IN IF ~(do_lookup \/ do_payoff \/ do_pdf)
       THEN AfterLookup(s, sid, loan_number, m, FALSE, << >>, o)
     ELSE IF cached
       THEN AfterLookup(s, sid, loan_number, m, do_lookup, << >>, o)
     ELSE IF identifier = None
       THEN Turn(s, ChatResponse("ask_identifier", FALSE, None), << >>)
     ELSE IF record = None
       THEN Turn(s, ChatResponse("loan_not_found", FALSE, None),
                 <<ToolCalled("get_loan_info", identifier, FALSE)>>)
     ELSE IF o.lookup = "raise"
       THEN ErrorTurn(s, sid, <<ToolCalled("get_loan_info", identifier, FALSE)>>)
     ELSE AfterLookup(loaded, sid, record, m, TRUE,
                      <<ToolCalled("get_loan_info", identifier, TRUE)>>, o)

\* The loan number a turn works with: the one in the message, or, when the
\* message has neither a loan number nor a borrower name, the session's
\* current loan number.
ContextLoan(c, m) ==
  IF m.loan_number = None /\ m.borrower_name = None /\
     c.current_loan_number # None
    THEN c.current_loan_number
    ELSE m.loan_number

\* AIOrchestrator._execute_simplified(message, session).  With no identifier
\* in the message and no current loan the elif at the top reads do_payoff
\* before it is assigned; the UnboundLocalError goes to the except branch.
execute_simplified(s, sid, m, o) ==
  LET c == s.context
      noIdentifier == m.loan_number = None /\ m.borrower_name = None
      loan_number == ContextLoan(c, m)
  IN IF noIdentifier /\ c.current_loan_number = None
       THEN ErrorTurn(s, sid, << >>)
     ELSE IF c.pending_email_confirmation
       THEN ConfirmationTurn(s, sid, m, o)
     ELSE WorkTurn(s, sid, m, loan_number, o)

\* SessionManager.get_or_create_session(session_id): the id of the session
\* it returns and the store it leaves.  The stored session is looked up only
\* "if session_id:", and create_session_with_id takes a fresh uuid only when
\* session_id is None.
Truthy(x) == x # None /\ x # ""

GetOrCreateId(store, session_id, uuid, t) ==
  IF Truthy(session_id) /\ GetSessionFound(store, session_id, t)
    THEN session_id
    ELSE IF session_id # None THEN session_id ELSE uuid

GetOrCreateStore(store, session_id, uuid, t) ==
  IF Truthy(session_id) /\ GetSessionFound(store, session_id, t)
    THEN GetSessionStore(store, session_id, t)
    ELSE CreateWithIdStore(store, GetOrCreateId(store, session_id, uuid, t), t)

\* SessionManager.get_or_create_session(session_id) called on its own.
GetOrCreateSession(session_id) ==
  /\ \E uuid \in UuidPool :
       /\ session_id = None => ~sessions[uuid].resident
       /\ sessions' = GetOrCreateStore(sessions, session_id, uuid, now)
       /\ ret' = [Ret("get_or_create_session", session_id, now, TRUE) EXCEPT
                    !.handled = GetOrCreateId(sessions, session_id, uuid, now)]
  /\ UNCHANGED now
  /\ UNCHANGED <<chainVars, planVars>>

\* POST /api/chat/message: process_user_message gets or creates the session
\* and runs _execute_simplified on it; the endpoint then overwrites the
\* response's session_id with the request's.
ChatMessage(session_id, u, o) ==
  /\ \E uuid \in UuidPool :
       /\ session_id = None => ~sessions[uuid].resident
       /\ LET id == GetOrCreateId(sessions, session_id, uuid, now)
              st0 == GetOrCreateStore(sessions, session_id, uuid, now)
              turn == execute_simplified(st0[id], id, Msg(u), o)
          IN /\ sessions' = [st0 EXCEPT ![id] = turn.session]
             /\ ret' = [Ret("chat", session_id, now,
                            Truthy(session_id) /\
                            GetSessionFound(sessions, session_id, now)) EXCEPT
                          !.handled = id,
                          !.utterance = u,
                          !.pending_before =
                             st0[id].context.pending_email_confirmation,
                          !.pending_address_before =
                             st0[id].context.pending_email_address,
                          !.send_to =
                             IF SendEmailCalled(turn.calls)
                               THEN send_email_address(st0[id].context)
                               ELSE None,
                          !.kind = turn.resp.kind,
                          !.success = turn.resp.success,
                          !.session_id = turn.resp.session_id,
                          !.endpoint_session_id = session_id,
                          !.calls = turn.calls]
  /\ UNCHANGED now
  /\ UNCHANGED <<chainVars, planVars>>

\* ------------------------------------------------------------ plan creation
\* ToolStep built by create_chain_plan / create_custom_chain: Pending, its own
\* copy of the context.
NewStep(i, tool, params, context) ==
  [step_number |-> i, tool_name |-> tool, parameters |-> params,
   status |-> PENDING, result |-> NoResult, error_message |-> None,
   context_data |-> context]

\* create_chain_plan followed by _execute_as_chain's assignment of the
\* extracted parameters to the first step.
create_chain_plan(toolSeq, firstParams, context) ==
  [i \in 1..Len(toolSeq) |->
     NewStep(i, toolSeq[i], IF i = 1 THEN firstParams ELSE EmptyDict, context)]

\* Sequences over S of length lo..hi.
SeqsOf(S, lo, hi) == UNION {[1..n -> S] : n \in lo..hi}

ShortToolSeqs == SeqsOf(ToolNames, 0, MaxSteps)

LongToolSeqs ==
  {[i \in 1..n |-> "get_loan_info"] : n \in (MaxSteps + 1)..MaxLongSteps}

\* Literal parameters of the first step, initial contexts and session contexts
\* the executor is started with.
LiteralParams ==
  {EmptyDict, Dict1("identifier", "lit"), Dict1("current_loan_number", "lit")}

InitialContexts == {EmptyDict, Dict1("current_loan_number", "ctx")}

SessionContexts ==
  {EmptyDict, Dict1("current_loan_number", "sess"), Dict1("identifier", "sess")}

\* engine.progress_callbacks, in registration order.
progress_callbacks == <<"cb1", "cb2">>

\* execute_chain has not started on the plan.
ChainCreated ==
  /\ total_steps = Len(steps)
  /\ chainPc = "created"
  /\ cur = 1
  /\ updates = << >>
  /\ invoked = << >>
  /\ deliveries = << >>
  /\ chainResult =
       [present |-> FALSE, success |-> FALSE, context_data |-> EmptyDict,
        steps_executed |-> 0]

ChainInit ==
  /\ \/ \E ts \in ShortToolSeqs, p \in LiteralParams, c \in InitialContexts :
          steps = create_chain_plan(ts, p, c)
     \/ \E ts \in LongToolSeqs :
          steps = create_chain_plan(ts, EmptyDict, EmptyDict)
  /\ raisers = {}
  /\ ChainCreated

\* ------------------------------------------------------------ plan objects
\* Plans created in one run, and addresses of the object heap.
MaxPlans == 2

MaxObjects == 4

\* Python objects live at addresses; a dictionary maps each key to the
\* address of its value, NoObject for a missing key.  A str cannot be
\* changed in place, a nested dict can.
NoObject == 0

Addresses == 1..MaxObjects

PlanKeys == {"current_loan_number", "current_loan_data", "options"}

EmptyRefs == [k \in PlanKeys |-> NoObject]

FreeCell == [kind |-> "free", content |-> "v0"]

\* The objects that exist before any plan is made: the caller's context
\* holds a loan number (str) and the loan data (dict), a template step's
\* parameters hold a nested options dict.
InitialHeap ==
  [a \in Addresses |->
     CASE a = 1 -> [kind |-> "str", content |-> "v0"]
       [] a = 2 -> [kind |-> "dict", content |-> "v0"]
       [] a = 3 -> [kind |-> "dict", content |-> "v0"]
       [] OTHER -> FreeCell]

\* The context argument: None (context or {}) or the caller's dictionary.
PlanContexts ==
  {EmptyRefs,
   [k \in PlanKeys |->
      CASE k = "current_loan_number" -> 1
        [] k = "current_loan_data" -> 2
        [] OTHER -> NoObject]}

\* ChainTemplate.steps: step definitions with a tool name and parameters.
StepDef(tool, params) == [tool_name |-> tool, parameters |-> params]

OptionsParams == [k \in PlanKeys |-> IF k = "options" THEN 3 ELSE NoObject]

Templates ==
  {<<StepDef("get_loan_info", EmptyRefs)>>,
   <<StepDef("get_loan_info", OptionsParams),
     StepDef("calculate_payoff", OptionsParams)>>}

\* Tool sequences handed to create_custom_chain.
CustomToolSeqs == SeqsOf({"get_loan_info", "generate_pdf", UnknownTool}, 0, 2)

\* The values uuid.uuid4() returns.
ChainUuids == {"c" \o ToString(n) : n \in 1..MaxPlans}

\* dict.copy(), and the new dict pydantic builds for a Dict field: a new
\* dictionary with the same value objects.
ShallowCopy(d) == [k \in PlanKeys |-> d[k]]

\* ToolStep(step_number, tool_name, parameters, context_data=context.copy()).
PlanStep(i, tool, params, context) ==
  [step_number |-> i, tool_name |-> tool, status |-> PENDING,
   parameters |-> ShallowCopy(params), context_data |-> ShallowCopy(context)]

\* ToolChainPlan(chain_id, steps, total_steps = len(steps)).
ToolChainPlan(chain_id, ss) ==
  [chain_id |-> chain_id, steps |-> ss, total_steps |-> Len(ss)]

NoPlanRet ==
  [op |-> "none", returned |-> FALSE, error |-> None, tools |-> << >>,
   plan |-> 0, step |-> 0]

\* execute_tool_sequence has not been called.
NoSequence ==
  [tool_calls |-> << >>, pos |-> 1, called |-> << >>, results |-> << >>,
   returned |-> FALSE]

PlanInit ==
  /\ heap = InitialHeap
  /\ plans = << >>
  /\ planRet = NoPlanRet
  /\ sequence = NoSequence

UsedChainIds == {plans[p].chain_id : p \in DOMAIN plans}

\* ToolChainEngine.create_chain_plan(template, context).
CreateChainPlan(template, context) ==
  /\ Len(plans) < MaxPlans
  /\ \E chain_id \in ChainUuids \ UsedChainIds :
       plans' = Append(plans,
                  ToolChainPlan(chain_id,
                    [i \in DOMAIN template |->
                       PlanStep(i, template[i].tool_name,
                                template[i].parameters, context)]))
  /\ planRet' = [NoPlanRet EXCEPT !.op = "create_chain_plan",
                                  !.returned = TRUE,
                                  !.plan = Len(plans) + 1]
  /\ UNCHANGED <<heap, sequence>>
  /\ UNCHANGED <<chainVars, sessionVars>>

\* Mutant of FirstUnknown: only the first name is looked up.
FirstUnknown_first_only(tool_sequence) ==
  IF Len(tool_sequence) > 0 /\ tool_sequence[1] \notin available_tools
    THEN 1 ELSE 0

\* The position of the first name of the sequence that is not in
\* available_tools, 0 when every name is registered.
FirstUnknown(tool_sequence) ==
  LET unknown == {i \in DOMAIN tool_sequence :
                    tool_sequence[i] \notin available_tools}
  IN IF unknown = {} THEN 0
     ELSE CHOOSE i \in unknown : \A j \in unknown : i <= j

\* ToolChainEngine.create_custom_chain(description, tool_sequence, context):
\* ValueError("Unknown tool: ...") at the first unregistered name, else the
\* plan.
CreateCustomChain(tool_sequence, context) ==
  /\ Len(plans) < MaxPlans
  /\ IF FirstUnknown(tool_sequence) # 0
       THEN /\ planRet' = [NoPlanRet EXCEPT
                             !.op = "create_custom_chain",
                             !.error = "Unknown tool",
                             !.tools = tool_sequence]
            /\ UNCHANGED plans
       ELSE /\ \E chain_id \in ChainUuids \ UsedChainIds :
                 plans' = Append(plans,
                            ToolChainPlan(chain_id,
                              [i \in DOMAIN tool_sequence |->
                                 PlanStep(i, tool_sequence[i], EmptyRefs,
                                          context)]))
            /\ planRet' = [NoPlanRet EXCEPT
                             !.op = "create_custom_chain",
                             !.returned = TRUE,
                             !.tools = tool_sequence,
                             !.plan = Len(plans) + 1]
  /\ UNCHANGED <<heap, sequence>>
  /\ UNCHANGED <<chainVars, sessionVars>>

StepFields == {"parameters", "context_data"}

\* step.parameters[k] = value or step.context_data[k] = value: the key of
\* that step's own dictionary is bound to a new object.
SetStepValue(p, i, field, k) ==
  /\ p \in DOMAIN plans
  /\ i \in DOMAIN plans[p].steps
  /\ \E a \in Addresses :
       /\ heap[a].kind = "free"
       /\ \A b \in Addresses : heap[b].kind = "free" => a <= b
       /\ heap' = [heap EXCEPT ![a] = [kind |-> "dict", content |-> "v1"]]
       /\ plans' = [plans EXCEPT ![p].steps[i][field][k] = a]
  /\ planRet' = [NoPlanRet EXCEPT !.op = "set_value", !.plan = p, !.step = i]
  /\ UNCHANGED sequence
  /\ UNCHANGED <<chainVars, sessionVars>>

\* step.context_data[k][...] = value (or the same on a parameter): the
\* nested dictionary the key refers to is changed in place.
MutateNestedValue(p, i, field, k) ==
  /\ p \in DOMAIN plans
  /\ i \in DOMAIN plans[p].steps
  /\ LET a == plans[p].steps[i][field][k]
     IN /\ a # NoObject
        /\ heap[a].kind = "dict"
        /\ heap[a].content = "v0"
        /\ heap' = [heap EXCEPT ![a].content = "v1"]
  /\ planRet' = [NoPlanRet EXCEPT !.op = "mutate_nested", !.plan = p,
                                  !.step = i]
  /\ UNCHANGED <<plans, sequence>>
  /\ UNCHANGED <<chainVars, sessionVars>>

\* Plan creation and changes to the steps of the created plans.
NextPlan ==
  \/ \E template \in Templates, context \in PlanContexts :
       CreateChainPlan(template, context)
  \/ \E tool_sequence \in CustomToolSeqs, context \in PlanContexts :
       CreateCustomChain(tool_sequence, context)
  \/ \E p \in 1..MaxPlans, i \in 1..2, field \in StepFields, k \in PlanKeys :
       SetStepValue(p, i, field, k)
  \/ \E p \in 1..MaxPlans, i \in 1..2, field \in StepFields, k \in PlanKeys :
       MutateNestedValue(p, i, field, k)

\* ------------------------------------------------------ ToolChainPlan props
completed_steps(ss) == Cardinality({i \in DOMAIN ss : ss[i].status = COMPLETED})

failed_steps(ss) == Cardinality({i \in DOMAIN ss : ss[i].status = FAILED})

is_complete(ss) ==
  \A i \in DOMAIN ss : ss[i].status \in {COMPLETED, FAILED, SKIPPED}

\* Mutant of is_successful: the failed-step count is not consulted.
is_successful_no_failed_check(ss) == is_complete(ss)

is_successful(ss) == is_complete(ss) /\ failed_steps(ss) = 0

\* Mutant of extract_final_context: the context of the first step.
extract_final_context_of_first(ss) ==
  IF Len(ss) > 0 THEN ss[1].context_data ELSE EmptyDict

\* _extract_final_context: the context of plan.steps[-1].
extract_final_context(ss) ==
  IF Len(ss) > 0 THEN ss[Len(ss)].context_data ELSE EmptyDict

\* The ChainExecutionResult execute_chain builds after its loop.
BuildResult(ss) ==
  [present |-> TRUE, success |-> is_successful(ss),
   context_data |-> extract_final_context(ss),
   steps_executed |-> completed_steps(ss)]

\* ------------------------------------------------------------- progress
\* _send_progress_update's percentage, as the exact fraction num/den with
\* den = total_steps: step/total*100 by default and when Completed,
\* (step-1)/total*100 + 10 when InProgress, capped by min(percentage, 100).
Min(a, b) == IF a <= b THEN a ELSE b

PercentageNum(step_number, status, total) ==
  LET raw == IF status = IN_PROGRESS
               THEN (step_number - 1) * 100 + 10 * total
               ELSE step_number * 100
  IN Min(raw, 100 * total)

ProgressUpdate(step, total) ==
  [current_step |-> step.step_number, total_steps |-> total,
   step_name |-> step.tool_name, step_status |-> step.status,
   num |-> PercentageNum(step.step_number, step.status, total), den |-> total]

\* ------------------------------------------------------- context propagation
\* The context_updates dictionary _update_context_from_result builds for a
\* successful result of the named tool.
context_updates(tool, payload) ==
  CASE tool = "get_loan_info" ->
         [k \in CtxKeys |->
            CASE k = "current_loan_number" -> PayloadGet(payload, "loan_number")
              [] k = "current_borrower_name" -> PayloadGet(payload, "borrower_name")
              [] k = "current_loan_data" -> PayloadOrEmpty(payload)
              [] OTHER -> Absent]
    [] tool = "calculate_payoff" ->
         [k \in CtxKeys |->
            CASE k = "current_payoff_data" -> PayloadOrEmpty(payload)
              [] k = "total_payoff_amount" -> PayloadGet(payload, "total_payoff")
              [] OTHER -> Absent]
    [] tool = "generate_pdf" ->
         [k \in CtxKeys |->
            CASE k = "generated_pdf_filename" -> PayloadGet(payload, "filename")
              [] k = "generated_pdf_url" -> PayloadGet(payload, "download_url")
              [] OTHER -> Absent]
    [] OTHER -> EmptyDict

\* for future_step in plan.steps[step.step_number:]: update its context.
update_context_from_result(ss, k, payload) ==
  [j \in DOMAIN ss |->
     IF j > k
       THEN [ss[j] EXCEPT !.context_data =
               DictUpdate(@, context_updates(ss[k].tool_name, payload))]
       ELSE ss[j]]

\* -------------------------------------------------------------- execution
\* parameters = step.parameters.copy(); parameters.update(step.context_data)
PrepareParameters(step) == DictUpdate(step.parameters, step.context_data)

\* The payload a registered tool returns for step k on success.
PayloadOf(k) == "r" \o ToString(k)

\* Mutant of CallbacksCalled: the first exception ends the loop.
CallbacksCalled_stops_at_raise(raising) ==
  LET n == Len(progress_callbacks)
      stop == IF \E i \in 1..n : progress_callbacks[i] \in raising
                THEN CHOOSE i \in 1..n :
                       /\ progress_callbacks[i] \in raising
                       /\ \A j \in 1..(i - 1) : progress_callbacks[j] \notin raising
                ELSE n
  IN [i \in 1..stop |-> progress_callbacks[i]]

\* The for loop of _send_progress_update: every callback is awaited inside
\* its own try/except, so the ones after a raising callback are still
\* called.  The callbacks called with one update, in order.
CallbacksCalled(raising) ==
  [i \in DOMAIN progress_callbacks |-> progress_callbacks[i]]

\* execute_chain up to its loop: merge the session context into every step.
ExecuteChainStart ==
  /\ chainPc = "created"
  /\ \E sc \in (IF Len(steps) > MaxSteps THEN {EmptyDict} ELSE SessionContexts) :
       LET merged == [i \in DOMAIN steps |->
                        [steps[i] EXCEPT !.context_data = DictUpdate(@, sc)]]
       IN IF Len(steps) = 0
            THEN /\ steps' = merged
                 /\ chainResult' = BuildResult(merged)
                 /\ chainPc' = "done"
            ELSE /\ steps' = merged
                 /\ chainPc' = "loop"
                 /\ UNCHANGED chainResult
  /\ UNCHANGED <<total_steps, cur, updates, invoked, raisers, deliveries>>
  /\ UNCHANGED <<sessionVars, planVars>>

\* _execute_step up to the tool call: an unregistered tool fails the step
\* without a progress update, and execute_chain breaks and returns; a
\* registered tool is marked InProgress and a progress update is sent.
StepBegin ==
  /\ chainPc = "loop"
  /\ IF steps[cur].tool_name \notin available_tools
       THEN LET ss == [steps EXCEPT ![cur].status = FAILED,
                                    ![cur].error_message = "Tool not available"]
            IN /\ steps' = ss
               /\ chainResult' = BuildResult(ss)
               /\ chainPc' = "done"
               /\ UNCHANGED <<updates, deliveries>>
       ELSE LET ss == [steps EXCEPT ![cur].status = IN_PROGRESS]
            IN /\ steps' = ss
               /\ updates' = Append(updates, ProgressUpdate(ss[cur], total_steps))
               /\ deliveries' = Append(deliveries, CallbacksCalled(raisers))
               /\ chainPc' = "invoke"
               /\ UNCHANGED chainResult
  /\ UNCHANGED <<total_steps, cur, invoked, raisers>>
  /\ UNCHANGED <<sessionVars, planVars>>

\* Mutant of StepAfterCall: a tool call that raises leaves the step's status
\* as it was.
StepAfterCall_keeps_status_on_raise(ss, k, o) ==
  CASE o = "ok" ->
         update_context_from_result(
           [ss EXCEPT ![k].result = ToolResultOk(PayloadOf(k)),
                      ![k].status = COMPLETED],
           k, PayloadOf(k))
    [] o = "fail" ->
         [ss EXCEPT ![k].result = ToolResultFail("not found"),
                    ![k].status = COMPLETED]
    [] OTHER ->
         [ss EXCEPT ![k].error_message = "exception"]

\* The step's status, result and error after the tool call ended with outcome
\* o, and the context propagation of a successful result.
StepAfterCall(ss, k, o) ==
  CASE o = "ok" ->
         update_context_from_result(
           [ss EXCEPT ![k].result = ToolResultOk(PayloadOf(k)),
                      ![k].status = COMPLETED],
           k, PayloadOf(k))
    [] o = "fail" ->
         [ss EXCEPT ![k].result = ToolResultFail("not found"),
                    ![k].status = COMPLETED]
    [] OTHER ->
         [ss EXCEPT ![k].status = FAILED, ![k].error_message = "exception"]

\* _execute_step from the tool call on, and execute_chain's loop control: the
\* closing progress update, break on a Failed step, the result after the last
\* step.
StepInvoke ==
  /\ chainPc = "invoke"
  /\ \E o \in Outcomes :
       LET ss == StepAfterCall(steps, cur, o)
       IN /\ invoked' = Append(invoked,
                          [step |-> cur, tool |-> steps[cur].tool_name,
                           args |-> PrepareParameters(steps[cur]),
                           outcome |-> o])
          /\ steps' = ss
          /\ updates' = Append(updates, ProgressUpdate(ss[cur], total_steps))
          /\ deliveries' = Append(deliveries, CallbacksCalled(raisers))
          /\ IF ss[cur].status = FAILED \/ cur = Len(ss)
               THEN /\ chainResult' = BuildResult(ss)
                    /\ chainPc' = "done"
                    /\ UNCHANGED cur
               ELSE /\ chainPc' = "loop"
                    /\ cur' = cur + 1
                    /\ UNCHANGED chainResult
  /\ UNCHANGED <<total_steps, raisers>>
  /\ UNCHANGED <<sessionVars, planVars>>

NextChain == ExecuteChainStart \/ StepBegin \/ StepInvoke

\* The executor started on a created plan; the session store is as constructed.
InitChain == ChainInit /\ SessionInit /\ PlanInit

SpecChain == InitChain /\ [][NextChain]_vars

\* The executor on plans of registered and unregistered tools, with every
\* choice of progress callbacks that raise.
InitProgress ==
  /\ \E ts \in ShortToolSeqs : steps = create_chain_plan(ts, EmptyDict, EmptyDict)
  /\ raisers \in SUBSET {progress_callbacks[i] : i \in DOMAIN progress_callbacks}
  /\ ChainCreated
  /\ SessionInit
  /\ PlanInit

SpecProgress == InitProgress /\ [][NextChain]_vars

\* ------------------------------------------------------- chain properties
\* The tool of step k failed: it is not registered, or its call raised or
\* returned an explicit failure result.
ToolFailedAt(k) ==
  \/ steps[k].tool_name \notin available_tools
  \/ \E i \in DOMAIN invoked :
       invoked[i].step = k /\ invoked[i].outcome \in {"fail", "raise"}

StepWasInvoked(k) == \E i \in DOMAIN invoked : invoked[i].step = k

LaterStepsUntouched(k) ==
  \A j \in DOMAIN steps :
    j > k => steps[j].status = PENDING /\ ~StepWasInvoked(j)

\* C1: when execute_chain has returned and step k is the first step whose tool
\* failed, steps 1..k-1 are Completed, step k is Failed and steps k+1..N are
\* still Pending and were never invoked.
C1_FirstFailingStepStopsChain ==
  chainPc = "done" =>
    \A k \in DOMAIN steps :
      (ToolFailedAt(k) /\ \A j \in 1..(k - 1) : ~ToolFailedAt(j)) =>
        /\ \A j \in 1..(k - 1) : steps[j].status = COMPLETED
        /\ steps[k].status = FAILED
        /\ LaterStepsUntouched(k)

\* C2: a step whose tool returned an explicit failure result is Failed with
\* that message, the result has success = false and every later step is
\* still Pending and was never invoked.
C2_ExplicitFailureIsStepFailure ==
  chainPc = "done" =>
    \A i \in DOMAIN invoked :
      invoked[i].outcome = "fail" =>
        /\ steps[invoked[i].step].status = FAILED
        /\ steps[invoked[i].step].error_message = "not found"
        /\ ~chainResult.success
        /\ LaterStepsUntouched(invoked[i].step)

\* C3: the success flag of the returned ChainExecutionResult is true exactly
\* when every step of the plan ended Completed.
C3_SuccessIffAllCompleted ==
  chainResult.present =>
    (chainResult.success <=> \A i \in DOMAIN steps : steps[i].status = COMPLETED)

\* C3 witness: a returned result of a plan that stopped part-way, with a
\* Completed step, a Failed step and a Pending step.
C3_Witness ==
  /\ chainResult.present
  /\ ~chainResult.success
  /\ \E i, j, k \in DOMAIN steps :
       /\ steps[i].status = COMPLETED
       /\ steps[j].status = FAILED
       /\ steps[k].status = PENDING

\* The fields a tool's result payload is read at.
ResultFields ==
  {"loan_number", "borrower_name", "total_payoff", "filename", "download_url"}

\* v is an output of step k's result: the payload or one of its fields.
IsOutputOf(v, k) ==
  \/ v = PayloadOf(k)
  \/ \E f \in ResultFields : v = PayloadGet(PayloadOf(k), f)

\* C4: when step k succeeds, every context field its tool declares in
\* provides_context holds an output of step k in the snapshot of every later
\* step, and the snapshots of steps 1..k are unchanged.
C4_DeclaredOutputsReachLaterSteps ==
  [][(/\ chainPc = "invoke"
      /\ steps'[cur].status = COMPLETED
      /\ steps'[cur].result.success) =>
       /\ \A j \in DOMAIN steps :
            j > cur =>
              \A key \in provides_context(steps[cur].tool_name) :
                IsOutputOf(steps'[j].context_data[key], cur)
       /\ \A j \in 1..cur : steps'[j].context_data = steps[j].context_data]_vars

\* C5: in the arguments of every tool invocation a key the step's literal
\* parameters define keeps the literal's value, and every other key has the
\* context snapshot's value.
C5_LiteralsWinOverContext ==
  \A i \in DOMAIN invoked :
    \A key \in CtxKeys :
      LET step == steps[invoked[i].step]
      IN IF step.parameters[key] # Absent
           THEN invoked[i].args[key] = step.parameters[key]
           ELSE invoked[i].args[key] = step.context_data[key]

\* C6: the percentages of the ProgressUpdates of one run lie in 0..100 and
\* never decrease.
C6_ProgressNonDecreasing ==
  \A i \in DOMAIN updates :
    /\ 0 <= updates[i].num
    /\ updates[i].num <= 100 * updates[i].den
    /\ i > 1 => updates[i - 1].num <= updates[i].num

\* ------------------------------------------------------- session behaviour
\* No chain plan has been created.
NoChain ==
  /\ steps = << >>
  /\ total_steps = 0
  /\ chainPc = "idle"
  /\ cur = 1
  /\ updates = << >>
  /\ invoked = << >>
  /\ raisers = {}
  /\ deliveries = << >>
  /\ chainResult =
       [present |-> FALSE, success |-> FALSE, context_data |-> EmptyDict,
        steps_executed |-> 0]

InitSession == NoChain /\ SessionInit /\ PlanInit

\* The expiry hours, debug flags and extensions callers pass.
ExpiryHours == {0, DefaultExpiryHours}

ExtendHours == {<< >>, <<1>>}

DebugUpdates == {None, "True"}

\* The session store under its own operations.
NextStore ==
  \/ Tick
  \/ \E hours \in ExpiryHours, debug \in BOOLEAN : CreateSession(hours, debug)
  \/ \E id \in NamedIds : GetSession(id)
  \/ \E id \in NamedIds, debug \in DebugUpdates, extend \in ExtendHours,
        clear \in BOOLEAN : UpdateSession(id, debug, extend, clear)
  \/ \E id \in NamedIds : DeleteSession(id)
  \/ \E id \in NamedIds : ClearSessionEndpoint(id)
  \/ CleanupExpiredSessions
  \/ \E session_id \in {"s1", None} : GetOrCreateSession(session_id)

SpecStore == InitSession /\ [][NextStore]_vars

\* The ids get_or_create_session is called with: a client's id, the empty
\* string, or none.
GetOrCreateIds == {"s1", "", None}

\* get_or_create_session between clock ticks, debug-mode updates (which
\* change the stored context) and direct fetches.
NextGetOrCreate ==
  \/ Tick
  \/ \E session_id \in GetOrCreateIds : GetOrCreateSession(session_id)
  \/ \E id \in SessionIds : UpdateSession(id, "True", << >>, FALSE)
  \/ \E id \in SessionIds : GetSession(id)

SpecGetOrCreate == InitSession /\ [][NextGetOrCreate]_vars

\* The session ids chat requests carry: the client's id, or none.
ClientId == "s1"

RequestIds == {ClientId}

\* Chat turns on the client's session, with the clock, session updates,
\* context clears and the periodic sweep between them.
NextTurn ==
  \/ Tick
  \/ \E session_id \in RequestIds, u \in Messages :
       \E o \in OutcomesFor(u) : ChatMessage(session_id, u, o)
  \/ \E extend \in ExtendHours, clear \in BOOLEAN :
       UpdateSession(ClientId, None, extend, clear)
  \/ ClearSessionEndpoint(ClientId)
  \/ CleanupExpiredSessions

SpecTurn == InitSession /\ [][NextTurn]_vars

\* A conversation that starts without a session id: the first request has
\* none, the later ones carry the id of the session the first one created.
NextConversation ==
  \E session_id \in {None} \cup UuidPool, u \in Messages :
    \E o \in OutcomesFor(u) : ChatMessage(session_id, u, o)

SpecConversation == InitSession /\ [][NextConversation]_vars

\* ------------------------------------------------------ session properties
\* C7: once the time of the call is later than the session's expires_at,
\* get_session returns None for that id, whether the expired session is still
\* stored or a sweep has removed it; so a session created with
\* expiry_hours = 0 is not returned by any later get_session.
C7_ExpiredSessionNotReturned ==
  (ret.op = "get_session" /\ ret.found) =>
    /\ sessions[ret.sid].resident
    /\ ret.at <= sessions[ret.sid].expires_at
    /\ ~(sessions[ret.sid].expires_at = sessions[ret.sid].created_at /\
         ret.at > sessions[ret.sid].created_at)

\* A session created with expiry_hours = 0, still stored, was asked for at a
\* later hour and None came back.
C7_Witness ==
  /\ ret.op = "get_session"
  /\ sessions[ret.sid].resident
  /\ sessions[ret.sid].expires_at = sessions[ret.sid].created_at
  /\ ret.at > sessions[ret.sid].expires_at
  /\ ~ret.found

\* The pending-confirmation triple of a session context.
PendingTriple(s) ==
  <<s.context.pending_email_confirmation, s.context.pending_email_address,
    s.context.pending_email_loan_number>>

PendingCleared(s) == PendingTriple(s) = <<FALSE, None, None>>

\* C8: in every reachable state a session context with
\* pending_email_confirmation true has a pending_email_address that is
\* neither None nor empty.
C8_PendingHasAddress ==
  \A id \in SessionIds :
    (sessions[id].resident /\ sessions[id].context.pending_email_confirmation)
      => sessions[id].context.pending_email_address \notin {None, ""}

\* A turn asked for an email and left the confirmation pending.
C8_Witness ==
  /\ ret.op = "chat"
  /\ ~ret.pending_before
  /\ sessions[ret.handled].context.pending_email_confirmation
  /\ sessions[ret.handled].context.pending_email_address # None

\* The last operation was a context clear that found its session.
ClearReturned ==
  /\ ret.found
  /\ \/ ret.op = "clear_session"
     \/ ret.op = "update_session" /\ ret.kind = "clear_context"

\* C9: a context clear (clear_context through update_session, the
\* clear-session endpoint) leaves the whole pending triple reset, and no
\* state shows a triple of which only a part is cleared.
C9_ClearResetsWholeTriple ==
  /\ ClearReturned => PendingCleared(sessions[ret.sid])
  /\ \A id \in SessionIds :
       \/ PendingCleared(sessions[id])
       \/ /\ sessions[id].context.pending_email_confirmation
          /\ sessions[id].context.pending_email_address # None
          /\ sessions[id].context.pending_email_loan_number # None

\* A context clear found a session with a confirmation pending.
C9_Witness ==
  /\ ClearReturned
  /\ ret.pending_before
  /\ PendingCleared(sessions[ret.sid])

\* C10: when the session handling a turn has a confirmation pending and the
\* utterance is "N", the turn does not invoke send_email, leaves the three
\* pending fields cleared and answers that the email was cancelled.
C10_NegativeAnswerCancels ==
  (ret.op = "chat" /\ ret.pending_before /\ ret.utterance = "N") =>
    /\ \A i \in DOMAIN ret.calls : ret.calls[i].tool_name # "send_email"
    /\ PendingCleared(sessions[ret.handled])
    /\ ret.kind = "email_cancelled"
    /\ ret.success

\* "N" was the answer to a pending confirmation.
C10_Witness ==
  /\ ret.op = "chat"
  /\ ret.pending_before
  /\ ret.utterance = "N"
  /\ ret.kind = "email_cancelled"

\* ------------------------------------------------------- tool sequences
\* Longest list of tool calls handed to execute_tool_sequence.
MaxCalls == 3

\* The tools _execute_single_tool dispatches on; any other name makes it
\* raise AIOrchestrationError("Unknown tool").
SingleTools == {"get_loan_info", "calculate_payoff", "generate_pdf"}

ToolCallNames == SingleTools \cup {"send_email"}

\* What _execute_single_tool can do for a tool name.
SingleToolOutcomes(tool) == IF tool \in SingleTools THEN Outcomes ELSE {"raise"}

\* Mutant of SequenceResults: a call that raises is not reported.
SequenceResults_drops_raised(results, tool, o) ==
  IF o = "raise" THEN results
  ELSE Append(results, [tool_name |-> tool, success |-> o = "ok"])

\* The body of execute_tool_sequence's loop: the tool's own ToolResult is
\* appended, or in the except branch a failure ToolResult for the call.
SequenceResults(results, tool, o) ==
  Append(results, [tool_name |-> tool, success |-> o = "ok"])

SequenceInit ==
  /\ heap = InitialHeap
  /\ plans = << >>
  /\ planRet = NoPlanRet
  /\ \E tool_calls \in SeqsOf(ToolCallNames, 0, MaxCalls) :
       sequence = [NoSequence EXCEPT !.tool_calls = tool_calls]

\* One iteration of execute_tool_sequence's loop.
ExecuteToolCall ==
  /\ ~sequence.returned
  /\ sequence.pos <= Len(sequence.tool_calls)
  /\ LET tool == sequence.tool_calls[sequence.pos]
     IN \E o \in SingleToolOutcomes(tool) :
          sequence' = [sequence EXCEPT
                         !.pos = @ + 1,
                         !.called = Append(@, tool),
                         !.results = SequenceResults(@, tool, o)]
  /\ UNCHANGED <<heap, plans, planRet>>
  /\ UNCHANGED <<chainVars, sessionVars>>

\* execute_tool_sequence returns its results after the loop.
ReturnToolResults ==
  /\ ~sequence.returned
  /\ sequence.pos > Len(sequence.tool_calls)
  /\ sequence' = [sequence EXCEPT !.returned = TRUE]
  /\ UNCHANGED <<heap, plans, planRet>>
  /\ UNCHANGED <<chainVars, sessionVars>>

NextSequence == ExecuteToolCall \/ ReturnToolResults

InitSequence == NoChain /\ SessionInit /\ SequenceInit

SpecSequence == InitSequence /\ [][NextSequence]_vars

\* ------------------------------------------------ session manager behaviour
\* The tool results handed to update_context_from_tool_result.
ToolResults ==
  {ToolResultOk("r1"), ToolResultOk(None), ToolResultFail("not found")}

\* The session manager's chain, message and tool-result operations on one
\* session that is created, used, left to expire and cleared, and on the id
\* of a session that was never created.
NextManager ==
  \/ Tick
  \/ CreateSession(1, FALSE)
  \/ \E id \in NamedIds, chain_id \in ChainIds : StartChainExecution(id, chain_id)
  \/ \E id \in NamedIds, chain_id \in ChainIds, result \in ChainResults :
       CompleteChainExecution(id, chain_id, result)
  \/ \E id \in NamedIds : UpdateContextFromMessage(id)
  \/ \E id \in NamedIds :
       UpdateContextFromToolResult(id, "calculate_payoff", ToolResultOk("r1"))
  \/ \E id \in NamedIds : GetSessionSummary(id)
  \/ ListSessions
  \/ \E id \in NamedIds : GetSession(id)
  \/ \E id \in NamedIds : UpdateSession(id, None, << >>, TRUE)

SpecManager == InitSession /\ [][NextManager]_vars

\* update_context_from_tool_result with every tool and result, on a session
\* that is created and left to expire.
NextToolResult ==
  \/ Tick
  \/ CreateSession(1, FALSE)
  \/ \E id \in NamedIds, tool_name \in ToolCallNames, tool_result \in ToolResults :
       UpdateContextFromToolResult(id, tool_name, tool_result)

SpecToolResult == InitSession /\ [][NextToolResult]_vars

\* ---------------------------------------------------------- plan behaviour
InitPlan == NoChain /\ SessionInit /\ PlanInit

SpecPlan == InitPlan /\ [][NextPlan]_vars

\* Plan creation alone: the plans the two constructors return.
NextCreate ==
  \/ \E template \in Templates, context \in PlanContexts :
       CreateChainPlan(template, context)
  \/ \E tool_sequence \in CustomToolSeqs, context \in PlanContexts :
       CreateCustomChain(tool_sequence, context)

SpecCreate == InitPlan /\ [][NextCreate]_vars

\* ---------------------------------------------------------- plan properties
\* What step i of plan p observes in its parameters and context: for every
\* key the content of the object it refers to.
Observed(h, ps, p, i) ==
  [field \in StepFields |->
     [k \in PlanKeys |->
        IF ps[p].steps[i][field][k] = NoObject
          THEN Absent
          ELSE h[ps[p].steps[i][field][k]].content]]

\* The last operation changed a value through step i of plan p.
ChangedThrough(r, p, i) ==
  r.op \in {"set_value", "mutate_nested"} /\ r.plan = p /\ r.step = i

\* C11: plans made by create_chain_plan, and the steps within one plan,
\* share no mutable state: a change made through one step to its parameters
\* or to a (nested) context value leaves what every other step of every plan
\* observes as it was; and no two plans have the same chain id.
C11_PlansShareNoMutableState ==
  [][/\ \A p \in DOMAIN plans : \A i \in DOMAIN plans[p].steps :
          ChangedThrough(planRet', p, i) =>
            \A q \in DOMAIN plans : \A j \in DOMAIN plans[q].steps :
              (q # p \/ j # i) =>
                Observed(heap', plans', q, j) = Observed(heap, plans, q, j)
     /\ \A p \in DOMAIN plans' : \A q \in DOMAIN plans' :
          p # q => plans'[p].chain_id # plans'[q].chain_id]_vars

\* The top-level dictionaries are not shared: binding a key of one step
\* changes no other step.
TopLevelCopiesIndependent ==
  [][\A p \in DOMAIN plans : \A i \in DOMAIN plans[p].steps :
       (ChangedThrough(planRet', p, i) /\ planRet'.op = "set_value") =>
         \A q \in DOMAIN plans : \A j \in DOMAIN plans[q].steps :
           (q # p \/ j # i) =>
             Observed(heap', plans', q, j) = Observed(heap, plans, q, j)]_vars

\* C12: get_or_create_session with a supplied id returns a live session
\* stored under that id: the stored session with its context (and creation
\* time) as they were when a live one is stored, otherwise a newly created
\* session with the default context that replaces what was stored.
C12_GetOrCreateKeepsLiveSession ==
  [][(ret'.op = "get_or_create_session" /\ ret'.sid # None) =>
       /\ ret'.handled = ret'.sid
       /\ sessions'[ret'.sid].resident
       /\ ~is_expired(sessions'[ret'.sid], now')
       /\ IF sessions[ret'.sid].resident /\
             ~is_expired(sessions[ret'.sid], now)
            THEN /\ sessions'[ret'.sid].context = sessions[ret'.sid].context
                 /\ sessions'[ret'.sid].created_at =
                      sessions[ret'.sid].created_at
            ELSE /\ sessions'[ret'.sid].context = DefaultContext
                 /\ sessions'[ret'.sid].created_at = now]_vars

\* The same for ids that are not the empty string.
GetOrCreateKeepsLiveSessionNonEmptyId ==
  [][(ret'.op = "get_or_create_session" /\ Truthy(ret'.sid)) =>
       /\ ret'.handled = ret'.sid
       /\ sessions'[ret'.sid].resident
       /\ ~is_expired(sessions'[ret'.sid], now')
       /\ IF sessions[ret'.sid].resident /\
             ~is_expired(sessions[ret'.sid], now)
            THEN /\ sessions'[ret'.sid].context = sessions[ret'.sid].context
                 /\ sessions'[ret'.sid].created_at =
                      sessions[ret'.sid].created_at
            ELSE /\ sessions'[ret'.sid].context = DefaultContext
                 /\ sessions'[ret'.sid].created_at = now]_vars

\* ------------------------------------------------- progress and failures
\* The status the tool calls alone give step k: Failed when its tool is not
\* registered (and the executor got to it) or its call raised, Completed
\* when its call returned, InProgress while it is being called.
StatusFromTools(k) ==
  IF \E i \in DOMAIN invoked : invoked[i].step = k
    THEN LET i == CHOOSE i \in DOMAIN invoked : invoked[i].step = k
         IN IF invoked[i].outcome = "raise" THEN FAILED ELSE COMPLETED
    ELSE IF chainPc = "invoke" /\ cur = k THEN IN_PROGRESS
    ELSE IF chainPc = "done" /\ cur = k /\
            steps[k].tool_name \notin available_tools THEN FAILED
    ELSE PENDING

\* C13: when a progress callback raises, the callbacks registered after it
\* are still called with that update, every step has the status its tool
\* call alone gives it, and the chain ends with the result built from the
\* plan after its last step or its first Failed step.
C13_RaisingSubscriberIsIsolated ==
  /\ Len(deliveries) = Len(updates)
  /\ \A u \in DOMAIN deliveries : deliveries[u] = progress_callbacks
  /\ \A k \in DOMAIN steps : steps[k].status = StatusFromTools(k)
  /\ chainPc = "done" =>
       /\ chainResult = BuildResult(steps)
       /\ \/ \A k \in DOMAIN steps : steps[k].status = COMPLETED
          \/ steps[cur].status = FAILED

\* The first callback raised on every update of a chain of two or more
\* steps, and the chain completed.
C13_Witness ==
  /\ progress_callbacks[1] \in raisers
  /\ chainPc = "done"
  /\ Len(steps) >= 2
  /\ \A k \in DOMAIN steps : steps[k].status = COMPLETED
  /\ Len(deliveries) = 2 * Len(steps)
  /\ chainResult.present

\* Step k is the first step whose tool failed.
FirstToolFailure(k) ==
  ToolFailedAt(k) /\ \A j \in 1..(k - 1) : ~ToolFailedAt(j)

\* C14: execute_chain returns a ChainExecutionResult for its plan whatever
\* the tools do; when a tool raised, returned a failure result or is not
\* registered, the result is not a success and the first such step is
\* Failed with a non-empty error message.
C14_FailureIsReportedInResult ==
  chainPc = "done" =>
    /\ chainResult.present
    /\ chainResult.steps_executed = completed_steps(steps)
    /\ \A k \in DOMAIN steps :
         FirstToolFailure(k) =>
           /\ ~chainResult.success
           /\ steps[k].status = FAILED
           /\ steps[k].error_message \notin {None, ""}

\* The same for the failures that are a raised exception or an unregistered
\* tool name.
RaiseOrUnknownIsReportedInResult ==
  chainPc = "done" =>
    /\ chainResult.present
    /\ \A k \in DOMAIN steps :
         (FirstToolFailure(k) /\
          \A i \in DOMAIN invoked : invoked[i].outcome # "fail") =>
           /\ ~chainResult.success
           /\ steps[k].status = FAILED
           /\ steps[k].error_message \notin {None, ""}

\* C15: execute_tool_sequence reports exactly one ToolResult per tool call,
\* in call order, and a call that fails or raises does not end the sequence:
\* when it returns, every call was made and has its result.
C15_OneResultPerCallInOrder ==
  /\ Len(sequence.results) = sequence.pos - 1
  /\ Len(sequence.called) = sequence.pos - 1
  /\ \A i \in DOMAIN sequence.results :
       /\ sequence.results[i].tool_name = sequence.tool_calls[i]
       /\ sequence.called[i] = sequence.tool_calls[i]
  /\ sequence.returned =>
       /\ Len(sequence.results) = Len(sequence.tool_calls)
       /\ sequence.called = sequence.tool_calls

\* A sequence whose first call failed and whose second raised returned three
\* results.
C15_Witness ==
  /\ sequence.returned
  /\ Len(sequence.tool_calls) = 3
  /\ ~sequence.results[1].success
  /\ sequence.tool_calls[2] = "send_email"
  /\ sequence.results[3].success

\* The borrowers on file; of the messages modelled, the ones whose text has
\* a person's name in it name one of these.
Borrowers == {BorrowerOf(n) : n \in LoanNumbers}

\* The text of the message contains no loan number and no borrower name.
NamesNoLoan(u) ==
  Msg(u).loan_number = None /\ Msg(u).borrower_name \notin Borrowers

\* What C16 says of the step from one state to the next, for the messages
\* in quiet: a successful lookup leaves the loan it found current; a turn on
\* a live session with current loan L and a quiet message gives L to every
\* tool it invokes, invokes the payoff calculation it was asked for, and
\* leaves L current.
CurrentLoanIsRemembered(quiet) ==
  ret'.op = "chat" =>
    LET id == ret'.handled
        L == sessions[id].context.current_loan_number
        calls == ret'.calls
        current == sessions'[id].context.current_loan_number
    IN /\ \A i \in DOMAIN calls :
            (calls[i].tool_name = "get_loan_info" /\ calls[i].success) =>
              current = find_loan_by_identifier(calls[i].identifier)
       /\ (ret'.found /\ L # None /\ ret'.utterance \in quiet) =>
            /\ \A i \in DOMAIN calls : calls[i].identifier = L
            /\ current = L
            /\ (Msg(ret'.utterance).kw_payoff /\ ~ret'.pending_before) =>
                 \E i \in DOMAIN calls :
                    calls[i].tool_name = "calculate_payoff"

CurrentLoanIsRememberedWhenNothingMatched ==
  [][CurrentLoanIsRemembered({u \in Messages :
                               /\ Msg(u).loan_number = None
                               /\ Msg(u).borrower_name = None})]_vars

\* The payoff was calculated for the loan a previous turn had found by the
\* borrower's name, after an earlier turn had looked another loan up.
CurrentLoanWasUsed ==
  /\ ret.op = "chat"
  /\ ret.found
  /\ ret.utterance = "Calculate payoff"
  /\ ret.calls = <<ToolCalled("calculate_payoff", "12345678", TRUE)>>
  /\ sessions[ret.handled].context.current_loan_number = "12345678"
  /\ sessions[ret.handled].context.generated_pdf_filename = "69253358"

\* C17: create_custom_chain fails with the unknown-tool error and returns no
\* plan when any name of the sequence is not a registered tool; otherwise it
\* returns a plan with one Pending step per name, numbered 1..N in the order
\* of the names.
C17_CustomChainStepsOrError ==
  planRet.op = "create_custom_chain" =>
    IF \E i \in DOMAIN planRet.tools : planRet.tools[i] \notin available_tools
      THEN /\ planRet.error = "Unknown tool"
           /\ ~planRet.returned
           /\ planRet.plan = 0
      ELSE /\ planRet.error = None
           /\ planRet.returned
           /\ planRet.plan = Len(plans)
           /\ LET plan == plans[planRet.plan]
              IN /\ plan.total_steps = Len(planRet.tools)
                 /\ DOMAIN plan.steps = DOMAIN planRet.tools
                 /\ \A i \in DOMAIN plan.steps :
                      /\ plan.steps[i].step_number = i
                      /\ plan.steps[i].tool_name = planRet.tools[i]
                      /\ plan.steps[i].status = PENDING

\* A sequence whose second name is not registered was refused.
C17_Witness ==
  /\ planRet.op = "create_custom_chain"
  /\ Len(planRet.tools) = 2
  /\ planRet.tools[1] \in available_tools
  /\ planRet.tools[2] \notin available_tools
  /\ planRet.error = "Unknown tool"

\* The status of step i changes in this step of the chain.
StatusChanges(i) == steps'[i].status # steps[i].status

\* With the change of step i's status one ProgressUpdate for step i carrying
\* the new status is sent, and it is delivered to every subscriber.
UpdateFollows(i) ==
  /\ Len(updates') = Len(updates) + 1
  /\ updates'[Len(updates')].current_step = i
  /\ updates'[Len(updates')].step_status = steps'[i].status
  /\ Len(deliveries') = Len(deliveries) + 1
  /\ deliveries'[Len(deliveries')] = progress_callbacks

\* C18: during execute_chain every status transition of a step (Pending to
\* InProgress, InProgress to Completed or Failed, and Pending to Failed for
\* an unknown tool) comes with exactly one ProgressUpdate carrying the new
\* status, delivered to every subscriber before the next step starts.
C18_EveryTransitionIsReported ==
  [][\A i \in DOMAIN steps :
       (DOMAIN steps' = DOMAIN steps /\ StatusChanges(i)) => UpdateFollows(i)]_vars

\* The same for the steps whose tool is registered.
RegisteredToolTransitionsAreReported ==
  [][\A i \in DOMAIN steps :
       (/\ DOMAIN steps' = DOMAIN steps
        /\ StatusChanges(i)
        /\ steps[i].tool_name \in available_tools) => UpdateFollows(i)]_vars

\* A chain of three registered tools ran to its end: six transitions, six
\* updates.
AllTransitionsWereReported ==
  /\ chainPc = "done"
  /\ Len(steps) = 3
  /\ \A i \in DOMAIN steps : steps[i].status = COMPLETED
  /\ Len(updates) = 6

\* C19: a turn on a session with a pending confirmation goes to the
\* confirmation answers and invokes no tool but send_email; when the
\* utterance is neither an affirmative nor a negative it invokes no tool,
\* leaves the session's whole context (the pending triple included) as it
\* was and returns the re-prompt with success true.
C19_UnparseableAnswerReprompts ==
  [][(ret'.op = "chat" /\ ret'.pending_before) =>
       /\ \A i \in DOMAIN ret'.calls : ret'.calls[i].tool_name = "send_email"
       /\ ret'.kind \in {"email_sent", "email_failed", "email_cancelled",
                         "reprompt", "error"}
       /\ Msg(ret'.utterance).text \notin (Affirmatives \cup Negatives) =>
            /\ ret'.calls = << >>
            /\ sessions'[ret'.handled].context = sessions[ret'.handled].context
            /\ ret'.kind = "reprompt"
            /\ ret'.success]_vars

\* A request for another loan arrived while a confirmation was pending and
\* was answered with the re-prompt.
C19_Witness ==
  /\ ret.op = "chat"
  /\ ret.pending_before
  /\ ret.utterance = "Show loan info for loan 99999999"
  /\ ret.kind = "reprompt"
  /\ sessions[ret.handled].context.pending_email_confirmation

\* C20: get_session on a resident session that has expired sets the stored
\* session's status to Expired, returns None and changes nothing else of it
\* (last_activity, context and residency stay); on a live session it sets
\* last_activity to now, leaves the status Active and the context, and
\* returns the session.  No other session is touched.
C20_GetSessionEffects ==
  [][ret'.op = "get_session" =>
       LET id == ret'.sid
           s == sessions[id]
       IN /\ \A other \in SessionIds \ {id} : sessions'[other] = sessions[other]
          /\ (s.resident /\ now > s.expires_at) =>
               /\ ~ret'.found
               /\ sessions'[id] = [s EXCEPT !.status = EXPIRED]
          /\ (s.resident /\ ~(now > s.expires_at)) =>
               /\ ret'.found
               /\ sessions'[id].status = ACTIVE
               /\ sessions'[id] = [s EXCEPT !.last_activity = now]]_vars

\* get_session found a session expired that had been used after it was made:
\* it is flagged, still resident, and its last_activity is the old one.
C20_Witness ==
  /\ ret.op = "get_session"
  /\ ~ret.found
  /\ sessions[ret.sid].resident
  /\ sessions[ret.sid].status = EXPIRED
  /\ sessions[ret.sid].last_activity > sessions[ret.sid].created_at
  /\ sessions[ret.sid].last_activity < ret.at

\* C21: cleanup_expired_sessions removes from the store exactly the resident
\* sessions with now > expires_at, returns their number, and leaves every
\* other session as it was (resident, context and all), whatever operations
\* on the sessions came before the sweep.
C21_SweepRemovesExactlyExpired ==
  [][ret'.op = "cleanup_expired_sessions" =>
       /\ \A id \in SessionIds :
            IF sessions[id].resident /\ now > sessions[id].expires_at
              THEN ~sessions'[id].resident
              ELSE sessions'[id] = sessions[id]
       /\ ret'.count =
            Cardinality({id \in SessionIds : sessions[id].resident /\
                                             ~sessions'[id].resident})]_vars

\* A sweep removed one session and left a live session with a changed
\* context in the store.
C21_Witness ==
  /\ ret.op = "cleanup_expired_sessions"
  /\ ret.count = 1
  /\ \E id \in SessionIds :
       /\ sessions[id].resident
       /\ sessions[id].context.debug_mode
       /\ sessions[id].expires_at >= now

\* The reading and updating operations of the session store.
ReadOrUpdateOps ==
  {"get_session", "update_session", "update_context_from_message",
   "update_context_from_tool_result", "start_chain_execution",
   "complete_chain_execution", "get_session_summary"}

\* The session stored under id is unknown, or resident with now > expires_at.
AbsentSession(id) ==
  ~sessions[id].resident \/ now > sessions[id].expires_at

\* C22: for a session id that is unknown, or resident but expired, each of
\* the reading and updating store operations returns None and leaves that
\* session's context and chain lists as they were, and list_sessions has no
\* summary for it.
C22_AbsentSessionIsNotTouched ==
  [][/\ (ret'.op \in ReadOrUpdateOps /\ AbsentSession(ret'.sid)) =>
          /\ ~ret'.found
          /\ ret'.kind # "raise"
          /\ sessions'[ret'.sid].context = sessions[ret'.sid].context
          /\ sessions'[ret'.sid].active_chains = sessions[ret'.sid].active_chains
          /\ sessions'[ret'.sid].completed_chains =
               sessions[ret'.sid].completed_chains
     /\ ret'.op = "list_sessions" =>
          \A id \in SessionIds :
             AbsentSession(id) =>
               /\ id \notin ret'.listed
               /\ sessions'[id].context = sessions[id].context
               /\ sessions'[id].active_chains = sessions[id].active_chains]_vars

\* complete_chain_execution was called for a chain that is active in a
\* session that has expired: the chain is still in its active list.
C22_Witness ==
  /\ ret.op = "complete_chain_execution"
  /\ ~ret.found
  /\ sessions[ret.sid].resident
  /\ sessions[ret.sid].status = EXPIRED
  /\ InList(sessions[ret.sid].active_chains, ret.chain_id)
  /\ sessions[ret.sid].context.active_chain_id = ret.chain_id

\* C23: on a live session start_chain_execution(c) leaves c in active_chains
\* and the active chain pointer at c; complete_chain_execution(c, r) leaves c
\* out of active_chains and in completed_chains, r as the last chain result,
\* and the active chain pointer cleared if it pointed to c and as it was if
\* it did not.
C23_ChainStartAndCompletion ==
  [][LET id == ret'.sid
         c == ret'.chain_id
     IN /\ (ret'.op = "start_chain_execution" /\ ret'.found) =>
             /\ InList(sessions'[id].active_chains, c)
             /\ sessions'[id].context.active_chain_id = c
        /\ (ret'.op = "complete_chain_execution" /\ ret'.found) =>
             /\ ~InList(sessions'[id].active_chains, c)
             /\ InList(sessions'[id].completed_chains, c)
             /\ sessions'[id].context.last_chain_result = ret'.kind
             /\ sessions'[id].context.active_chain_id =
                  IF sessions[id].context.active_chain_id = c
                    THEN None
                    ELSE sessions[id].context.active_chain_id]_vars

\* A chain was completed while the pointer was at another active chain.
C23_Witness ==
  /\ ret.op = "complete_chain_execution"
  /\ ret.found
  /\ ret.chain_id = "c1"
  /\ sessions[ret.sid].context.active_chain_id = "c2"
  /\ sessions[ret.sid].active_chains = <<"c2">>
  /\ sessions[ret.sid].completed_chains = <<"c1">>
  /\ sessions[ret.sid].context.last_chain_result = "result2"

\* The value the Executor propagates to later steps under key k for a result
\* of the tool (Absent: none); it propagates only for a successful result.
ExecutorWrites(tool_name, tool_result, k) ==
  IF tool_result.success /\ k \in CtxKeys
    THEN context_updates(tool_name, tool_result.result)[k]
    ELSE Absent

\* The value update_context_from_tool_result assigns to context field k.
SessionWrites(tool_name, tool_result, k) ==
  IF k \in ContextFields
    THEN session_context_updates(tool_name, tool_result)[k]
    ELSE Absent

\* The two rule sets agree on the tools and results in the given sets.
RulesAgree(tools, results) ==
  (/\ ret.op = "update_context_from_tool_result"
   /\ ret.found
   /\ ret.tool_name \in tools
   /\ ret.tool_result \in results) =>
    /\ ret.kind # "raise"
    /\ \A k \in ContextFields \cup CtxKeys :
         SessionWrites(ret.tool_name, ret.tool_result, k) =
           ExecutorWrites(ret.tool_name, ret.tool_result, k)

\* C24: for each tool name and each result, update_context_from_tool_result
\* writes into the session context the same fields with the same values as
\* the Executor propagates to later steps for that tool and result, and for
\* a result without success both write nothing.
C24_SessionRulesEqualExecutorRules == RulesAgree(ToolCallNames, ToolResults)

\* The two agree for artifact generation with a payload, for tools without a
\* rule, and for every result without success.
PdfAndFailureRulesAgree ==
  /\ RulesAgree({"generate_pdf", "send_email"}, {ToolResultOk("r1")})
  /\ RulesAgree(ToolCallNames, {ToolResultFail("not found")})

\* A successful artifact generation was written into a live session.
PdfResultWasWritten ==
  /\ ret.op = "update_context_from_tool_result"
  /\ ret.found
  /\ ret.tool_name = "generate_pdf"
  /\ sessions[ret.sid].context.generated_pdf_filename = "r1.filename"
  /\ sessions[ret.sid].context.current_payoff_data = "r1"

\* C25: the context snapshot in the ChainExecutionResult equals the context
\* of the last step execute_chain executed (the failing step when the chain
\* stopped early, else the last step of the plan); for a plan without steps
\* it is empty.
C25_FinalContextIsLastExecutedSteps ==
  chainPc = "done" =>
    /\ chainResult.present
    /\ chainResult.context_data =
         IF Len(steps) = 0 THEN EmptyDict ELSE steps[cur].context_data

\* A chain of three steps stopped at its second step, after the first had
\* provided the loan data.
C25_Witness ==
  /\ chainPc = "done"
  /\ Len(steps) = 3
  /\ cur = 2
  /\ steps[1].status = COMPLETED
  /\ steps[2].status = FAILED
  /\ steps[3].status = PENDING
  /\ chainResult.context_data["current_loan_data"] = PayloadOf(1)

\* C26: the response of process_user_message carries the id of the session
\* that handled the turn, on every path; and when the request had no session
\* id, the response the endpoint delivers carries the id of the session the
\* turn created.
C26_ResponseCarriesSessionId ==
  ret.op = "chat" =>
    /\ ret.session_id = ret.handled
    /\ ret.sid = None => ret.endpoint_session_id = ret.handled

\* The successful responses of process_user_message carry the id of the
\* session that handled the turn, and a request with a session id gets that
\* id back from the endpoint.
SuccessfulResponseCarriesSessionId ==
  ret.op = "chat" =>
    /\ ret.success => ret.session_id = ret.handled
    /\ ret.sid # None => ret.endpoint_session_id = ret.handled

\* A successful payoff calculation in a follow-up turn of the conversation.
FollowUpTurnSucceeded ==
  /\ ret.op = "chat"
  /\ ret.sid # None
  /\ ret.found
  /\ ret.success
  /\ ret.utterance = "Calculate payoff"
  /\ ret.calls # << >>

\* The statuses of the plan are a run of Completed steps, then at most one
\* step that is InProgress or Failed, then Pending steps only.
StatusShape ==
  \E k \in 0..Len(steps) :
    /\ \A i \in 1..k : steps[i].status = COMPLETED
    /\ k < Len(steps) =>
         steps[k + 1].status \in {PENDING, IN_PROGRESS, FAILED}
    /\ \A i \in (k + 2)..Len(steps) : steps[i].status = PENDING

AtMostOneInProgress ==
  Cardinality({i \in DOMAIN steps : steps[i].status = IN_PROGRESS}) <= 1

NeverSkipped == \A i \in DOMAIN steps : steps[i].status # SKIPPED

\* No step's tool is invoked twice.
InvokedAtMostOnce ==
  \A i, j \in DOMAIN invoked : invoked[i].step = invoked[j].step => i = j

\* A step that is Completed or Failed keeps its status.
TerminalStatusKept ==
  \A i \in DOMAIN steps :
    steps[i].status \in {COMPLETED, FAILED} =>
      /\ i \in DOMAIN steps'
      /\ steps'[i].status = steps[i].status

\* C27: while execute_chain runs a fresh plan the statuses are a run of
\* Completed, then at most one InProgress or Failed step, then Pending; at
\* most one step is InProgress; Skipped is never assigned; a Completed or
\* Failed step never changes status again; each step's tool is invoked at
\* most once.
C27_StatusesAdvanceInOrder ==
  /\ [](StatusShape /\ AtMostOneInProgress /\ NeverSkipped /\ InvokedAtMostOnce)
  /\ [][TerminalStatusKept]_vars

\* A run that completed two steps and failed at the third, with a Pending
\* step left behind it.
C27_Witness ==
  /\ chainPc = "done"
  /\ Len(steps) >= 4
  /\ steps[1].status = COMPLETED
  /\ steps[2].status = COMPLETED
  /\ steps[3].status = FAILED
  /\ steps[4].status = PENDING
  /\ Len(invoked) = 3

\* The turn invoked send-email only as the answer "yes" to a pending
\* confirmation, with the address stored with the question.
SendOnlyOnConfirmation ==
  (ret.op = "chat" /\ SendEmailCalled(ret.calls)) =>
    /\ ret.pending_before
    /\ Msg(ret.utterance).text \in Affirmatives
    /\ ret.pending_address_before # None
    /\ ret.send_to = ret.pending_address_before
    /\ Len(ret.calls) = 1

SendClearsPendingWhenItReturns ==
  /\ SendOnlyOnConfirmation
  /\ (ret.op = "chat" /\ SendEmailCalled(ret.calls) /\ ret.kind # "error")
       => PendingCleared(sessions[ret.handled])

\* A confirmed send that failed, the question cleared with it.
FailedSendClearedPending ==
  /\ ret.op = "chat"
  /\ SendEmailCalled(ret.calls)
  /\ ret.kind = "email_failed"
  /\ ret.pending_before
  /\ PendingCleared(sessions[ret.handled])

\* update_session returned the live session with this id.
UpdatedLive(id) ==
  /\ ret'.op = "update_session"
  /\ ret'.sid = id
  /\ ret'.found

\* C29: update_session with extend_expiry_hours on a live session never moves
\* expires_at earlier, and the session is still live immediately after.
C29_ExtensionNeverShortens ==
  [][\A id \in NamedIds :
       UpdatedLive(id) =>
         /\ sessions'[id].expires_at >= sessions[id].expires_at
         /\ ~is_expired(sessions'[id], now')]_vars

\* update_session leaves the session it returns live, with expires_at either
\* as it was or the time of the call plus the hours asked for.
ExtensionCountsFromNow ==
  [][\A id \in NamedIds :
       UpdatedLive(id) =>
         /\ \/ sessions'[id].expires_at = sessions[id].expires_at
            \/ \E extend \in ExtendHours \ {<< >>} :
                 sessions'[id].expires_at = now' + extend[1]
         /\ ~is_expired(sessions'[id], now')]_vars

\* An update that moved expires_at of a live session to a later time.
ExtensionMovedExpiryLater ==
  /\ ret.op = "update_session"
  /\ ret.found
  /\ sessions[ret.sid].expires_at > sessions[ret.sid].created_at + DefaultExpiryHours

NoDuplicates(list) ==
  \A i, j \in DOMAIN list : list[i] = list[j] => i = j

\* A non-null active chain pointer names a member of active_chains, and
\* neither list holds a chain id twice.
PointerAndListsWellFormed(s) ==
  /\ s.context.active_chain_id # None
       => InList(s.active_chains, s.context.active_chain_id)
  /\ NoDuplicates(s.active_chains)
  /\ NoDuplicates(s.completed_chains)

\* C30: after any sequence of start_chain_execution, complete_chain_execution
\* and clear_context calls on a session, a non-null active chain pointer is a
\* member of active_chains, neither list has duplicates, and no chain id is
\* in both active_chains and completed_chains.
C30_ChainListsStayConsistent ==
  \A id \in NamedIds :
    sessions[id].resident =>
      /\ PointerAndListsWellFormed(sessions[id])
      /\ \A c \in ChainIds :
           ~(InList(sessions[id].active_chains, c) /\
             InList(sessions[id].completed_chains, c))

\* The pointer and no-duplicates parts on their own.
PointerIsActiveAndListsHaveNoDuplicates ==
  \A id \in NamedIds :
    sessions[id].resident => PointerAndListsWellFormed(sessions[id])

\* One chain completed while another is still active and pointed to.
OneChainCompletedOneActive ==
  \E id \in NamedIds :
    /\ sessions[id].resident
    /\ ret.op = "complete_chain_execution"
    /\ ret.found
    /\ Len(sessions[id].completed_chains) = 1
    /\ Len(sessions[id].active_chains) = 1
    /\ sessions[id].context.active_chain_id # None
====
